---------------------------- MODULE Spec2Model ----------------------------
(***************************************************************************)
(* ecs_detective: the field classification engine of ECSAnalyzer and the   *)
(* parts of FieldParser it calls.                                          *)
(*                                                                         *)
(* Strings.  A JavaScript string is modelled as a sequence of symbols.  A  *)
(* symbol is the dot ".", the hyphen "-", or a word: a fixed non-empty run *)
(* of characters of [a-zA-Z0-9_@] without a dot.  No word of the           *)
(* vocabulary used below is a character prefix of another word, so the     *)
(* symbol sequence of a string is unique and a string is a character       *)
(* prefix of another exactly when its symbols are a prefix of the other's  *)
(* symbols: startsWith, Set.has and the regular expressions of the source  *)
(* are computed on symbols as the source computes them on characters.      *)
(* A segment may hold several words ("name" "x" is the segment namex).     *)
(***************************************************************************)
EXTENDS Integers, Sequences, FiniteSets, TLC

VARIABLES
    pc,                 \* position of the run: see Init / InitClassify
    coreFields,         \* analyze(): const coreFields (a Set of strings)
    vendorFields,       \* analyze(): const vendorFields (a Set of strings)
    filePaths,          \* analyze(): const filePaths (sorted, unique)
    progress,           \* analyze(): let progress
    stats,              \* this.stats
    extractedFields,    \* analyzeFile(): const extractedFields (last call)
    coreFieldsInFile,   \* categorizeFields(): result lists (last call)
    vendorFieldsInFile,
    customFieldsInFile,
    normalized,         \* result of the last direct normalizeFieldName call
    thrown,             \* the error analyze() rejected with, or "none"
    vendorFile,         \* the file this.vendorFieldsFile names, as it is on disk
    includeTests,       \* this.includeTests (options.includeTests || false)
    args,               \* the arguments of a direct call of a parser function
    returned,           \* what that call returned
    startIndex,         \* extractFieldsFromTypescriptInterfaces: const startIndex
    braceCount,         \* extractFieldsFromTypescriptInterfaces: let braceCount
    endIndex,           \* extractFieldsFromTypescriptInterfaces: let endIndex
    fieldsCSV,          \* the file this.fieldsCSV names, as it is on disk
    requests            \* the calls of fetch(this.ecsFieldsUrl) made so far

vars == <<pc, coreFields, vendorFields, filePaths, progress, stats,
          extractedFields, coreFieldsInFile, vendorFieldsInFile,
          customFieldsInFile, normalized, thrown, vendorFile, includeTests,
          args, returned, startIndex, braceCount, endIndex, fieldsCSV, requests>>

\* the locals of the brace scan of extractFieldsFromTypescriptInterfaces
braceScan == <<startIndex, braceCount, endIndex>>

\* no scan has begun
NoBraceScan ==
    /\ startIndex = 0
    /\ braceCount = 0
    /\ endIndex = 0

\* the reference file and the requests of the ECSFetcher
fetching == <<fieldsCSV, requests>>

\* no file at the path; writes counts the calls of fs.writeFile on it
MissingFile ==
    [exists |-> FALSE, content |-> [header |-> <<>>, rows |-> <<>>], writes |-> 0]

\* no request has been made
NoFetching ==
    /\ fieldsCSV = MissingFile
    /\ requests = 0

---------------------------------------------------------------------------
(* Strings as symbol sequences *)

DOT == "."

\* `${a}.${b}`
Dotted(a, b) == a \o <<DOT>> \o b

RECURSIVE Name(_)
\* the dotted name with the given one-word segments: Name(<<"user","name">>)
\* is the string user.name
Name(segs) ==
    IF Len(segs) = 0 THEN <<>>
    ELSE IF Len(segs) = 1 THEN <<segs[1]>>
    ELSE Dotted(<<segs[1]>>, Name(Tail(segs)))

\* String.prototype.startsWith
StartsWith(s, p) == Len(p) <= Len(s) /\ SubSeq(s, 1, Len(p)) = p

\* String.prototype.endsWith
EndsWith(s, p) == Len(p) <= Len(s) /\ SubSeq(s, Len(s) - Len(p) + 1, Len(s)) = p

\* s.substring(n)
Drop(s, n) == SubSeq(s, n + 1, Len(s))

\* the value null of normalizeFieldName: no string
Null == <<"<null>">>

\* JavaScript truthiness of a string-or-null value
Truthy(v) == v # Null /\ v # <<>>

RECURSIVE NonDotRun(_, _)
\* the number of symbols other than "." in s from position p on, up to the
\* next "." or the end: what [^.]+ and a lazy .+? before (?:\.|$) consume
NonDotRun(s, p) ==
    IF p > Len(s) \/ s[p] = DOT THEN 0 ELSE 1 + NonDotRun(s, p + 1)


RECURSIVE trimStart(_)
trimStart(s) == IF Len(s) >= 1 /\ s[1] = " " THEN trimStart(Tail(s)) ELSE s

RECURSIVE trimEnd(_)
trimEnd(s) ==
    IF Len(s) >= 1 /\ s[Len(s)] = " " THEN trimEnd(SubSeq(s, 1, Len(s) - 1)) ELSE s

\* String.prototype.trim
trim(s) == trimEnd(trimStart(s))

Min(S) == CHOOSE m \in S : \A n \in S : m <= n
Max(S) == CHOOSE m \in S : \A n \in S : m >= n

---------------------------------------------------------------------------
(* FieldParser.isECSField *)

\* isECSField with the sub-field test written startsWith(coreField)
isECSField_noDot(fieldName, coreFieldsSet) ==
    IF Len(fieldName) = 0 THEN FALSE
    ELSE IF fieldName \in coreFieldsSet THEN TRUE
    ELSE \E coreField \in coreFieldsSet : StartsWith(fieldName, coreField)

isECSField(fieldName, coreFieldsSet) ==
    IF Len(fieldName) = 0 THEN FALSE
    ELSE IF fieldName \in coreFieldsSet THEN TRUE
    ELSE \E coreField \in coreFieldsSet :
             StartsWith(fieldName, coreField \o <<DOT>>)

---------------------------------------------------------------------------
(* ECSAnalyzer.normalizeFieldName *)

commonNamespaces ==
    <<"event", "log", "user", "host", "process", "source", "destination">>

\* firstNamespaced without the return in the loop: the last hit wins
firstNamespaced_last(rest, coreFieldsSet) ==
    LET hits == {i \in DOMAIN commonNamespaces :
                    Dotted(<<commonNamespaces[i]>>, rest) \in coreFieldsSet}
    IN  IF hits = {} THEN Null
        ELSE Dotted(<<commonNamespaces[Max(hits)]>>, rest)

\* for (const namespace of commonNamespaces): the first `${namespace}.${rest}`
\* that the set has, or Null
firstNamespaced(rest, coreFieldsSet) ==
    LET hits == {i \in DOMAIN commonNamespaces :
                    Dotted(<<commonNamespaces[i]>>, rest) \in coreFieldsSet}
    IN  IF hits = {} THEN Null
        ELSE Dotted(<<commonNamespaces[Min(hits)]>>, rest)

\* a direct match of rest, then the namespaces
directOrNamespaced(rest, coreFieldsSet) ==
    IF rest \in coreFieldsSet THEN rest
    ELSE firstNamespaced(rest, coreFieldsSet)

kibanaAlertPrefix == <<"kibana", DOT, "alert", DOT>>

\* withoutAlertPrefix with the pattern /^kibana\./
withoutAlertPrefix_kibanaOnly(fieldName) ==
    IF StartsWith(fieldName, <<"kibana", DOT>>) THEN Drop(fieldName, 2) ELSE fieldName

\* fieldName.replace(/^kibana\.alert\./, '')
withoutAlertPrefix(fieldName) ==
    IF StartsWith(fieldName, kibanaAlertPrefix)
    THEN Drop(fieldName, Len(kibanaAlertPrefix))
    ELSE fieldName

\* withoutPrefix.match(/^original_event\.(.+)$/): `event.${match[1]}` or Null
originalEventField(withoutPrefix) ==
    IF StartsWith(withoutPrefix, <<"original_event", DOT>>) /\ Len(withoutPrefix) > 2
    THEN Dotted(<<"event">>, Drop(withoutPrefix, 2))
    ELSE Null

\* withoutPrefix.match(/^rule\.(.+)$/): match[1] or Null
withoutRulePrefix(withoutPrefix) ==
    IF StartsWith(withoutPrefix, <<"rule", DOT>>) /\ Len(withoutPrefix) > 2
    THEN Drop(withoutPrefix, 2)
    ELSE Null

\* withoutPrefix.match(/^rule\.parameters\.(.+)$/): match[1] or Null
withoutParametersPrefix(withoutPrefix) ==
    IF StartsWith(withoutPrefix, <<"rule", DOT, "parameters", DOT>>)
       /\ Len(withoutPrefix) > 4
    THEN Drop(withoutPrefix, 4)
    ELSE Null

\* the body of if (fieldName.startsWith('kibana.alert.')) { ... }
alertRules(fieldName, coreFieldsSet) ==
    LET withoutPrefix     == withoutAlertPrefix(fieldName)
        eventField        == originalEventField(withoutPrefix)
        namespacedField   == firstNamespaced(withoutPrefix, coreFieldsSet)
        withoutRule       == withoutRulePrefix(withoutPrefix)
        withoutParameters == withoutParametersPrefix(withoutPrefix)
    IN  IF withoutPrefix \in coreFieldsSet THEN withoutPrefix
        ELSE IF eventField # Null /\ eventField \in coreFieldsSet THEN eventField
        ELSE IF namespacedField # Null THEN namespacedField
        ELSE IF withoutRule # Null
                /\ directOrNamespaced(withoutRule, coreFieldsSet) # Null
             THEN directOrNamespaced(withoutRule, coreFieldsSet)
        ELSE IF withoutParameters # Null
             THEN directOrNamespaced(withoutParameters, coreFieldsSet)
        ELSE Null

RECURSIVE replaceProperties(_)
\* s.replace(/\.properties\./g, '.'): left to right, matches do not overlap
replaceProperties(s) ==
    IF Len(s) = 0 THEN <<>>
    ELSE IF StartsWith(s, <<DOT, "properties", DOT>>)
         THEN <<DOT>> \o replaceProperties(Drop(s, 3))
         ELSE <<s[1]>> \o replaceProperties(Tail(s))

\* s.replace(/\.properties$/, '')
stripTrailingProperties(s) ==
    IF EndsWith(s, <<DOT, "properties">>) THEN SubSeq(s, 1, Len(s) - 2) ELSE s

\* fieldName.match(/^mappings\.properties\.(.+?)(?:\.fields\..*)?$/), then
\* the two replaces: normalizedMapping, or Null when there is no match
complexMapping(fieldName) ==
    LET prefix == <<"mappings", DOT, "properties", DOT>>
        rest   == Drop(fieldName, Len(prefix))
        cuts   == {k \in 1..Len(rest) :
                      StartsWith(Drop(rest, k), <<DOT, "fields", DOT>>)}
        group1 == IF cuts = {} THEN rest ELSE SubSeq(rest, 1, Min(cuts))
    IN  IF StartsWith(fieldName, prefix) /\ Len(rest) >= 1
        THEN stripTrailingProperties(replaceProperties(group1))
        ELSE Null

\* the capture (.+?) before (?:\.|$) that starts at position p: one symbol,
\* then every symbol up to the next "." or the end
lazySegment(s, p) == SubSeq(s, p, p + NonDotRun(s, p + 1))

\* fieldName.match(/^([^.]+)\.<word>\.(.+?)(?:\.|$)/): <<match[1], match[2]>>,
\* or <<>> when there is no match
firstSegmentThen(fieldName, word) ==
    LET n == NonDotRun(fieldName, 1)
        p == n + 4
    IN  IF n >= 1 /\ StartsWith(Drop(fieldName, n), <<DOT, word, DOT>>)
           /\ Len(fieldName) >= p
        THEN <<SubSeq(fieldName, 1, n), lazySegment(fieldName, p)>>
        ELSE <<>>

\* metadataMatch: potentialField or Null
metadataField(fieldName) ==
    LET m == firstSegmentThen(fieldName, "fields")
    IN  IF m = <<>> THEN Null ELSE m[2]

\* fieldName.match(/^(.+)\.fields\.\1\.(.+?)(?:\.|$)/): normalizedNested or
\* Null; (.+) is greedy, so the longest echoed prefix is the match
nestedField(fieldName) ==
    LET ks == {k \in 1..Len(fieldName) :
                  /\ Len(fieldName) >= 2 * k + 5
                  /\ SubSeq(fieldName, k + 1, k + 3) = <<DOT, "fields", DOT>>
                  /\ SubSeq(fieldName, k + 4, 2 * k + 3) = SubSeq(fieldName, 1, k)
                  /\ fieldName[2 * k + 4] = DOT}
    IN  IF ks = {} THEN Null
        ELSE Dotted(SubSeq(fieldName, 1, Max(ks)),
                    lazySegment(fieldName, 2 * Max(ks) + 5))

\* propMatch: normalizedProp or Null
propertiesField(fieldName) ==
    LET m == firstSegmentThen(fieldName, "properties")
    IN  IF m = <<>> THEN Null ELSE Dotted(m[1], m[2])

schemaAttributes ==
    {"aggregatable", "category", "description", "example", "format", "type"}

\* fieldName.match(/^([^.]+)\.fields\.\1\.([^.]+)\.(?:aggregatable|...|type)$/):
\* normalizedSchema or Null
schemaField(fieldName) ==
    LET n  == NonDotRun(fieldName, 1)
        g1 == SubSeq(fieldName, 1, n)
        q  == 2 * n + 5
        n2 == NonDotRun(fieldName, q)
    IN  IF /\ n >= 1
           /\ StartsWith(Drop(fieldName, n), <<DOT, "fields", DOT>> \o g1 \o <<DOT>>)
           /\ n2 >= 1
           /\ Len(fieldName) = q + n2 + 1
           /\ fieldName[q + n2] = DOT
           /\ fieldName[q + n2 + 1] \in schemaAttributes
        THEN Dotted(g1, SubSeq(fieldName, q, q + n2 - 1))
        ELSE Null

\* ifCore without coreFieldsSet.has(candidate)
ifCore_unchecked(candidate, coreFieldsSet) == candidate

\* one of the rules after the kibana.alert block: the rule's output when the
\* set has it
ifCore(candidate, coreFieldsSet) ==
    IF candidate # Null /\ candidate \in coreFieldsSet THEN candidate ELSE Null

normalizeFieldName(fieldName, coreFieldsSet) ==
    LET alert == IF StartsWith(fieldName, kibanaAlertPrefix)
                 THEN alertRules(fieldName, coreFieldsSet) ELSE Null
    IN  IF alert # Null THEN alert
        ELSE IF ifCore(complexMapping(fieldName), coreFieldsSet) # Null
             THEN complexMapping(fieldName)
        ELSE IF ifCore(metadataField(fieldName), coreFieldsSet) # Null
             THEN metadataField(fieldName)
        ELSE IF ifCore(nestedField(fieldName), coreFieldsSet) # Null
             THEN nestedField(fieldName)
        ELSE IF ifCore(propertiesField(fieldName), coreFieldsSet) # Null
             THEN propertiesField(fieldName)
        ELSE IF ifCore(schemaField(fieldName), coreFieldsSet) # Null
             THEN schemaField(fieldName)
        ELSE Null

---------------------------------------------------------------------------
(* ECSAnalyzer.isVendorField *)

\* s.startsWith('.') ? s.substring(1) : s
withoutLeadingDot(s) == IF StartsWith(s, <<DOT>>) THEN Drop(s, 1) ELSE s

\* isVendorField comparing the pattern as stored with the field as given
isVendorField_asStored(fieldName, vendorFieldsSet) ==
    IF Len(fieldName) = 0 \/ vendorFieldsSet = {} THEN FALSE
    ELSE \E vendorPattern \in vendorFieldsSet : StartsWith(fieldName, vendorPattern)

isVendorField(fieldName, vendorFieldsSet) ==
    IF Len(fieldName) = 0 \/ vendorFieldsSet = {} THEN FALSE
    ELSE IF fieldName \in vendorFieldsSet THEN TRUE
    ELSE IF (IF StartsWith(fieldName, <<DOT>>) THEN fieldName
             ELSE <<DOT>> \o fieldName) \in vendorFieldsSet
            \/ withoutLeadingDot(fieldName) \in vendorFieldsSet
         THEN TRUE
    ELSE \E vendorPattern \in vendorFieldsSet :
             StartsWith(withoutLeadingDot(fieldName), withoutLeadingDot(vendorPattern))

---------------------------------------------------------------------------
(* ECSAnalyzer.categorizeFields *)

\* categoryOf with the vendor tests ahead of the core tests
categoryOf_vendorFirst(field, coreFieldsSet, vendorFieldsSet) ==
    IF StartsWith(field, <<"kibana", DOT>>) THEN "vendor"
    ELSE IF isVendorField(field, vendorFieldsSet) THEN "vendor"
    ELSE IF isECSField(field, coreFieldsSet) THEN "core"
    ELSE IF normalizeFieldName(field, coreFieldsSet) \in coreFieldsSet THEN "core"
    ELSE "custom"

\* categoryOf without the kibana. branch
categoryOf_noKibana(field, coreFieldsSet, vendorFieldsSet) ==
    IF isECSField(field, coreFieldsSet) THEN "core"
    ELSE IF normalizeFieldName(field, coreFieldsSet) \in coreFieldsSet THEN "core"
    ELSE IF isVendorField(field, vendorFieldsSet) THEN "vendor"
    ELSE "custom"

\* the branch the loop body takes for one field: the list it is pushed to
categoryOf(field, coreFieldsSet, vendorFieldsSet) ==
    IF isECSField(field, coreFieldsSet) THEN "core"
    ELSE LET normalizedField == normalizeFieldName(field, coreFieldsSet)
         IN  IF Truthy(normalizedField) /\ normalizedField \in coreFieldsSet
             THEN "core"
             ELSE IF StartsWith(field, <<"kibana", DOT>>) THEN "vendor"
             ELSE IF isVendorField(field, vendorFieldsSet) THEN "vendor"
             ELSE "custom"

RECURSIVE categorizeFrom_normalized(_, _, _, _, _)
\* categorizeFrom pushing normalizedField where the source pushes field
categorizeFrom_normalized(fields, i, coreFieldsSet, vendorFieldsSet, lists) ==
    IF i > Len(fields) THEN lists
    ELSE LET field == fields[i]
             c     == categoryOf(field, coreFieldsSet, vendorFieldsSet)
             name  == IF c = "core" /\ ~isECSField(field, coreFieldsSet)
                      THEN normalizeFieldName(field, coreFieldsSet) ELSE field
         IN  categorizeFrom_normalized(fields, i + 1, coreFieldsSet, vendorFieldsSet,
                 [lists EXCEPT ![c] = Append(@, name)])

RECURSIVE categorizeFrom(_, _, _, _, _)
\* the for loop from element i on; lists is the three lists so far
categorizeFrom(fields, i, coreFieldsSet, vendorFieldsSet, lists) ==
    IF i > Len(fields) THEN lists
    ELSE LET field == fields[i]
             c     == categoryOf(field, coreFieldsSet, vendorFieldsSet)
         IN  categorizeFrom(fields, i + 1, coreFieldsSet, vendorFieldsSet,
                 [lists EXCEPT ![c] = Append(@, field)])

categorizeFields(fields, coreFieldsSet, vendorFieldsSet) ==
    categorizeFrom(fields, 1, coreFieldsSet, vendorFieldsSet,
                   [core |-> <<>>, vendor |-> <<>>, custom |-> <<>>])

---------------------------------------------------------------------------
(* Inputs: reference schemas, vendor pattern sets and candidates *)

\* the largest number of field names of a reference schema
MaxSchema == 2

\* the largest number of candidates of a list of several candidates
MaxFields == 2

\* field names a reference CSV may list (each passes isValidECSFieldName)
SchemaPool ==
    { Name(<<"user", "name">>), Name(<<"host", "name">>), Name(<<"host", "ip">>),
      Name(<<"event", "action">>), Name(<<"original_event", "action">>),
      Name(<<"rule", "name">>), Name(<<"parameters", "name">>),
      Name(<<"mappings", "host">>), <<"message">>, <<"event">> }

SchemaSets == {S \in SUBSET SchemaPool : Cardinality(S) <= MaxSchema}

\* The vendor pattern file on disk: whether fs.pathExists finds it, whether
\* fs.readFile can read it, and its lines (content.split('\n')).
VendorFiles ==
    { [exists |-> FALSE, readable |-> FALSE, lines |-> <<>>],
      [exists |-> TRUE, readable |-> FALSE,
       lines |-> << <<DOT, "tanium", DOT>> >>],
      [exists |-> TRUE, readable |-> TRUE,
       lines |-> << <<"#", " ", "vendors">>, <<>>,
                    <<" ", DOT, "tanium", DOT, " ">> >>],
      [exists |-> TRUE, readable |-> TRUE,
       lines |-> << <<"tanium">>, Name(<<"user", "name">>), <<"tanium">> >>],
      [exists |-> TRUE, readable |-> TRUE,
       lines |-> << Name(<<"custom", "id">>), <<" ">>, <<DOT, "kibana">> >>],
      [exists |-> TRUE, readable |-> TRUE,
       lines |-> << <<"#", "tanium">>, <<" ", " ">> >>] }

\* the vendor files that exist and can be read
ReadableVendorFiles == { f \in VendorFiles : f.exists /\ f.readable }

\* loadVendorFields with the catch giving the patterns of the file
loadVendorFields_keepsPatterns(vendorFieldsFile) ==
    { trim(vendorFieldsFile.lines[i]) : i \in DOMAIN vendorFieldsFile.lines }
        \ {<<>>}

\* ECSAnalyzer.loadVendorFields: the empty Set when the file is missing or
\* the read throws; otherwise the trimmed lines that are neither empty nor
\* comments
loadVendorFields(vendorFieldsFile) ==
    IF ~vendorFieldsFile.exists THEN {}
    ELSE IF ~vendorFieldsFile.readable THEN {}
    ELSE { trim(vendorFieldsFile.lines[i]) : i \in
             { j \in DOMAIN vendorFieldsFile.lines :
                 /\ Len(trim(vendorFieldsFile.lines[j])) > 0
                 /\ ~StartsWith(trim(vendorFieldsFile.lines[j]), <<"#">>) } }

\* candidates as extractFieldsFromContent returns them
PlainCandidates ==
    { Name(<<"user", "name">>), Name(<<"user", "name", "keyword">>),
      <<"user", DOT, "name", "x">>,
      Name(<<"host", "ip">>), Name(<<"host", "ip", "raw">>),
      Name(<<"event", "action">>), <<"message">>,
      Name(<<"custom", "id">>), Name(<<"custom", "id", "keyword">>),
      Name(<<"tanium", "id">>), <<"tanium", "x", DOT, "id">>,
      Name(<<"kibana", "space", "id">>), Name(<<"kibana", "version">>) }

AlertCandidates ==
    { kibanaAlertPrefix \o f : f \in SchemaPool }
    \cup
    { kibanaAlertPrefix \o Name(segs) : segs \in
        { <<"name">>, <<"action">>, <<"status">>,
          <<"original_event", "action">>, <<"original_event", "name">>,
          <<"rule", "message">>, <<"rule", "action">>, <<"rule", "ip">>,
          <<"rule", "parameters", "name">>, <<"rule", "parameters", "message">>,
          <<"rule", "parameters", "action">>, <<"rule", "parameters", "host", "ip">>,
          <<"fields", "kibana", "alert", "name">> } }

MappingCandidates ==
    { Name(<<"mappings", "properties", "host", "properties", "name">>),
      Name(<<"mappings", "properties", "host", "properties", "name",
             "fields", "text", "type">>),
      Name(<<"mappings", "properties", "host", "properties", "ip", "properties">>),
      Name(<<"mappings", "properties", "message">>),
      Name(<<"mappings", "properties", "custom", "properties", "id">>),
      Name(<<"event", "fields", "event", "action">>),
      Name(<<"log", "fields", "message", "type">>),
      Name(<<"source", "fields", "host", "name">>),
      Name(<<"user", "fields", "user", "name", "aggregatable">>),
      Name(<<"user", "fields", "user", "name", "category">>),
      Name(<<"host", "fields", "host", "ip">>),
      Name(<<"host", "properties", "name", "type">>),
      Name(<<"user", "properties", "name">>),
      Name(<<"custom", "properties", "id">>) }

\* the .keyword sub-field of every field name a schema may hold
SubFieldCandidates == { Dotted(f, <<"keyword">>) : f \in SchemaPool }

Candidates ==
    PlainCandidates \cup SubFieldCandidates \cup AlertCandidates
        \cup MappingCandidates

\* the candidates that lists of several candidates are made of
ListPool ==
    { Name(<<"user", "name">>), Name(<<"user", "name", "keyword">>),
      Name(<<"kibana", "alert", "user", "name">>),
      Name(<<"kibana", "space", "id">>), Name(<<"tanium", "id">>),
      Name(<<"custom", "id">>) }

\* what Array.from(aSet) can be: the lists without a repeated element
DistinctLists(S, n) ==
    UNION { {l \in [1..k -> S] : \A i, j \in 1..k : l[i] = l[j] => i = j}
            : k \in 0..n }

CandidateLists ==
    { <<c>> : c \in Candidates } \cup DistinctLists(ListPool, MaxFields)

---------------------------------------------------------------------------
(* this.stats, as the constructor sets it *)

initialStats ==
    [ totalFiles              |-> 0,
      filesWithOnlyCoreFields |-> 0,
      filesWithVendorFields   |-> 0,
      filesWithCustomFields   |-> 0,
      coreFieldCounts         |-> <<>>,
      vendorFieldCounts       |-> <<>>,
      customFieldCounts       |-> <<>>,
      processedFiles          |-> 0,
      skippedFiles            |-> 0,
      skippedFilesList        |-> <<>>,
      fileTypeCounts          |-> <<>> ]

\* no parser function is called directly
noArgs == [fn |-> "none"]

noLists == [core |-> <<>>, vendor |-> <<>>, custom |-> <<>>]

---------------------------------------------------------------------------
(* The classification functions on their own: a caller hands a list of     *)
(* candidates, a schema and a vendor set to categorizeFields, or the first *)
(* candidate and the schema to normalizeFieldName.                         *)

InitClassify ==
    /\ pc = "input"
    /\ coreFields \in SchemaSets
    /\ vendorFile \in ReadableVendorFiles
    /\ vendorFields = loadVendorFields(vendorFile)
    /\ extractedFields \in CandidateLists
    /\ filePaths = <<>>
    /\ progress = 0
    /\ stats = initialStats
    /\ coreFieldsInFile = <<>>
    /\ vendorFieldsInFile = <<>>
    /\ customFieldsInFile = <<>>
    /\ normalized = Null
    /\ thrown = "none"
    /\ includeTests = FALSE
    /\ args = noArgs
    /\ returned = Null
    /\ NoBraceScan
    /\ NoFetching

CallCategorizeFields ==
    /\ pc = "input"
    /\ LET lists == categorizeFields(extractedFields, coreFields, vendorFields)
       IN  /\ coreFieldsInFile' = lists.core
           /\ vendorFieldsInFile' = lists.vendor
           /\ customFieldsInFile' = lists.custom
    /\ pc' = "categorized"
    /\ UNCHANGED <<coreFields, vendorFields, filePaths, progress, stats,
                   extractedFields, normalized, thrown,
                   vendorFile, includeTests, args, returned,
                   braceScan, fetching>>

CallNormalizeFieldName ==
    /\ pc = "input"
    /\ Len(extractedFields) >= 1
    /\ normalized' = normalizeFieldName(extractedFields[1], coreFields)
    /\ pc' = "normalized"
    /\ UNCHANGED <<coreFields, vendorFields, filePaths, progress, stats,
                   extractedFields, coreFieldsInFile, vendorFieldsInFile,
                   customFieldsInFile, thrown,
                   vendorFile, includeTests, args, returned,
                   braceScan, fetching>>

NextClassify == CallCategorizeFields \/ CallNormalizeFieldName

SpecClassify == InitClassify /\ [][NextClassify]_vars

---------------------------------------------------------------------------
(* Direct calls of one function: the variables a run of analyze() uses are *)
(* at their values after construction and stay there.                      *)

analysis == <<filePaths, progress, stats, extractedFields, coreFieldsInFile,
              vendorFieldsInFile, customFieldsInFile, normalized, thrown>>

NoAnalysis ==
    /\ filePaths = <<>>
    /\ progress = 0
    /\ stats = initialStats
    /\ extractedFields = <<>>
    /\ coreFieldsInFile = <<>>
    /\ vendorFieldsInFile = <<>>
    /\ customFieldsInFile = <<>>
    /\ normalized = Null
    /\ thrown = "none"

---------------------------------------------------------------------------
(* isVendorField on its own: a field name and the patterns of a vendor file *)

\* the most pattern lines of a vendor file
MaxPatterns == 2

\* pattern lines of vendor files
VendorPatternPool ==
    { <<DOT, "tanium", DOT>>, <<"tanium">>, <<DOT, "tanium">>,
      Name(<<"custom", "id">>), <<DOT, "kibana">>, <<DOT>> }

\* vendor files with up to MaxPatterns of these lines
PatternFiles ==
    { [exists |-> TRUE, readable |-> TRUE, lines |-> l] :
        l \in UNION { [1..k -> VendorPatternPool] : k \in 0..MaxPatterns } }

\* field names isVendorField is called with
VendorFieldNames ==
    { <<>>, <<"tanium">>, Name(<<"tanium", "id">>),
      <<DOT, "tanium">>, <<DOT, "tanium", DOT, "id">>,
      <<DOT, DOT, "tanium">>, <<"tanium", "x", DOT, "id">>,
      Name(<<"custom", "id">>), Name(<<"custom", "id", "keyword">>),
      <<"custom">>, Name(<<"kibana", "space", "id">>),
      Name(<<"user", "name">>) }

InitVendor ==
    /\ pc = "call"
    /\ vendorFile \in PatternFiles
    /\ vendorFields = loadVendorFields(vendorFile)
    /\ \E f \in VendorFieldNames : args = [fn |-> "isVendorField", fieldName |-> f]
    /\ returned = Null
    /\ coreFields = {}
    /\ includeTests = FALSE
    /\ NoAnalysis
    /\ NoBraceScan
    /\ NoFetching

CallIsVendorField ==
    /\ pc = "call"
    /\ args.fn = "isVendorField"
    /\ returned' = isVendorField(args.fieldName, vendorFields)
    /\ pc' = "return"
    /\ UNCHANGED <<coreFields, vendorFields, vendorFile, includeTests, args,
                   analysis, braceScan, fetching>>

NextVendor == CallIsVendorField

SpecVendor == InitVendor /\ [][NextVendor]_vars

---------------------------------------------------------------------------
(* FieldParser.parseECSFields *)

\* the symbols that are one character long
SingleCharacter == {DOT, "-", " ", "@", "#", "x", "z", "e", "g", "i", "a"}

\* the words of two and of three characters
TwoCharacterWords == {"ip", "id", "st", "vs", "co", "js", "md", "fn", "it", "ab"}
ThreeCharacterWords ==
    {"log", "pid", "dns", "ela", "etc", "com", "png", "css", "exe", "dll",
     "cmd", "app", "get", "git"}

\* runs of 32 characters of [a-f0-9] (MD5 digests)
HexRuns == {"d41d8cd98f00b204e9800998ecf8427e", "0cc175b9c0f1b6a831c399e269772661"}

\* the words that begin with a digit
DigitWords == {"7z", "0cc175b9c0f1b6a831c399e269772661"}

\* the words with a digit or an underscore in them
NotOnlyLetters ==
    DigitWords \cup HexRuns
        \cup {"env_vars", "ui_state", "kernel32",
              "f47ac10b", "c8cc", "b372", "d567", "fe02b2c3d479"}

\* a run of characters of [a-zA-Z0-9_]
isWord(symbol) == symbol \notin {DOT, "-", " ", "@", "#"}

\* a run of [a-zA-Z0-9_] that begins with a letter
startsWithLetter(symbol) == isWord(symbol) /\ symbol \notin DigitWords

\* the number of characters of a symbol, 4 standing for 4 or more
charLength(symbol) ==
    IF symbol \in SingleCharacter THEN 1
    ELSE IF symbol \in TwoCharacterWords \cup (DigitWords \ HexRuns) THEN 2
    ELSE IF symbol \in ThreeCharacterWords THEN 3
    ELSE 4

RECURSIVE stringLength(_)
\* s.length, 4 standing for 4 or more
stringLength(s) ==
    IF Len(s) = 0 THEN 0
    ELSE Min({4, charLength(s[1]) + stringLength(Tail(s))})

\* fieldName.length > 1
longerThanOne(s) == stringLength(s) > 1

\* /^[a-zA-Z@][a-zA-Z0-9_]*(?:\.[a-zA-Z][a-zA-Z0-9_]*)*$/.test(fieldName)
ecsNameFormat(fieldName) ==
    /\ Len(fieldName) >= 1
    /\ fieldName[1] = "@" \/ startsWithLetter(fieldName[1])
    /\ \A i \in 2..Len(fieldName) :
          \/ isWord(fieldName[i])
          \/ /\ fieldName[i] = DOT
             /\ i < Len(fieldName)
             /\ startsWithLetter(fieldName[i + 1])

\* FieldParser.isValidECSFieldName, utils isECSFieldKeyFormat: the format
\*   && fieldName.length > 1
isValidECSFieldName(fieldName) ==
    /\ ecsNameFormat(fieldName)
    /\ longerThanOne(fieldName)

---------------------------------------------------------------------------
(* utils/field-utils.js: the validator of extracted names.  The regular    *)
(* expressions are computed on the symbols of a name: a test of a whole    *)
(* dot-segment compares one word, and a test that may end inside a word    *)
(* uses the prefixes and suffixes of the words tabulated here.             *)

\* String.prototype.toLowerCase of a symbol (the /i flag)
toLowerCase(symbol) ==
    CASE symbol = "Object" -> "object"
      [] symbol = "Array" -> "array"
      [] symbol = "Math" -> "math"
      [] symbol = "JSON" -> "json"
      [] symbol = "CONFIG" -> "config"
      [] symbol = "isArray" -> "isarray"
      [] symbol = "gridData" -> "griddata"
      [] symbol = "uiState" -> "uistate"
      [] symbol = "Spec" -> "spec"
      [] symbol = "Tests" -> "tests"
      [] symbol = "B" -> "b"
      [] OTHER -> symbol

\* the string with every symbol in lower case
lowerCase(s) == [i \in DOMAIN s |-> toLowerCase(s[i])]

\* the words that have the text as a proper prefix
wordStartsWith(symbol, text) ==
    \/ symbol = text
    \/ <<symbol, text>> \in { <<"env_vars", "env">>, <<"ui_state", "ui_">>,
                              <<"anything_you_want", "anything">> }

\* the words that have the text as a proper suffix
wordEndsWith(symbol, text) ==
    \/ symbol = text
    \/ <<symbol, text>> \in { <<"myassets", "assets">> }

\* /^word\./i for a word of the set
firstSegmentIn(s, words) ==
    Len(s) >= 2 /\ toLowerCase(s[1]) \in words /\ s[2] = DOT

\* /\.(word|...)$/i
lastSegmentIn(s, words) ==
    Len(s) >= 2 /\ s[Len(s) - 1] = DOT /\ toLowerCase(s[Len(s)]) \in words

\* /^[^.]*\.(word|...)$/i: the only dot is the one before the last word
onlyDotBefore(s, words) ==
    /\ lastSegmentIn(s, words)
    /\ \A i \in 1..(Len(s) - 2) : s[i] # DOT

\* /left\.right/ anywhere in the string: a segment that ends with left, a
\* dot, and a segment that starts with right
containsDotted(s, left, right) ==
    \E i \in 1..(Len(s) - 2) :
        /\ wordEndsWith(s[i], left)
        /\ s[i + 1] = DOT
        /\ wordStartsWith(s[i + 2], right)

\* /word\./i anywhere in the string
containsBeforeDot(s, word) ==
    \E i \in 1..(Len(s) - 1) :
        wordEndsWith(toLowerCase(s[i]), word) /\ s[i + 1] = DOT

apiPatterns ==
    {"router", "app", "request", "response", "res", "req", "console",
     "logger", "module", "require", "global", "window", "document", "react",
     "vue", "angular", "jquery", "_", "object", "array", "string", "number",
     "date", "math", "json", "jest", "expect", "describe", "it", "test",
     "config", "options", "settings", "params", "http", "https", "fetch",
     "axios"}

\* isCommonAPIPattern without the configuration and HTTP prefixes
isCommonAPIPattern_short(fieldName) ==
    /\ Len(fieldName) > 0
    /\ firstSegmentIn(fieldName, {"console", "logger", "object", "array", "math", "json"})

isCommonAPIPattern(fieldName) ==
    /\ Len(fieldName) > 0
    /\ firstSegmentIn(fieldName, apiPatterns)

\* /^[a-zA-Z][a-zA-Z0-9_]*(?:\.[a-zA-Z][a-zA-Z0-9_]*)*$/
basicNameFormat(fieldName) ==
    ecsNameFormat(fieldName) /\ fieldName[1] # "@"

\* fieldName.includes('.')
includesDot(fieldName) == \E i \in DOMAIN fieldName : fieldName[i] = DOT

\* /^[@.]?[a-zA-Z][a-zA-Z0-9_]*(?:\.[a-zA-Z][a-zA-Z0-9_]*)*$/ && length > 1,
\* and a dot or length > 2
isValidFieldNameWithPrefixes(fieldName) ==
    /\ Len(fieldName) > 0
    /\ IF fieldName[1] \in {"@", DOT}
       THEN basicNameFormat(Tail(fieldName))
       ELSE basicNameFormat(fieldName)
    /\ longerThanOne(fieldName)
    /\ includesDot(fieldName) \/ stringLength(fieldName) > 2

\* the words with an underscore in them
Underscored == {"env_vars", "ui_state", "anything_you_want", "_"}

\* the symbols are letters only: [a-z]+ under the /i flag
onlyLetters(s) ==
    Len(s) >= 1 /\ \A i \in DOMAIN s : isWord(s[i]) /\ s[i] \notin NotOnlyLetters \cup Underscored

fileExtensions ==
    {"png", "jpg", "jpeg", "gif", "svg", "webp", "ico", "bmp",
     "css", "scss", "less", "sass", "html", "htm", "xml", "xhtml",
     "js", "ts", "jsx", "tsx", "mjs", "cjs",
     "json", "yaml", "yml", "toml", "ini", "cfg", "txt", "md", "rst", "log",
     "woff", "woff2", "ttf", "eot", "otf",
     "mp4", "avi", "mov", "webm", "mp3", "wav", "ogg",
     "zip", "tar", "gz", "rar", "7z", "dmg", "iso",
     "pdf", "doc", "docx", "xls", "xlsx", "ppt", "pptx"}

filePatterns(fieldName) == lastSegmentIn(fieldName, fileExtensions)

\* no name of the prefix format has a colon or a slash, so the scheme
\* patterns /^https?:\/\// and /^ftp:\/\// match none
urlPatterns(fieldName) ==
    \/ /\ onlyDotBefore(fieldName, {"com", "org", "net", "edu", "gov", "mil",
                                    "co", "io", "ly", "me", "ai", "dev"})
       /\ Len(fieldName) >= 3
       /\ \A i \in 1..(Len(fieldName) - 2) :
             isWord(fieldName[i]) /\ fieldName[i] \notin Underscored
    \/ firstSegmentIn(fieldName, {"www"})
    \/ containsDotted(lowerCase(fieldName), "github", "com")
    \/ containsDotted(lowerCase(fieldName), "elastic", "co")
    \/ containsDotted(lowerCase(fieldName), "mitre", "org")
    \/ containsDotted(lowerCase(fieldName), "mozilla", "org")
    \/ containsDotted(lowerCase(fieldName), "stackoverflow", "com")
    \/ containsBeforeDot(fieldName, "malpedia")

assetPatterns(fieldName) ==
    \/ /\ Len(fieldName) = 3
       /\ toLowerCase(fieldName[1]) \in {"image", "icon", "logo", "background",
                                         "screenshot"}
       /\ lastSegmentIn(fieldName, {"png", "jpg", "jpeg", "gif", "svg"})
    \/ containsBeforeDot(fieldName, "assets")
    \/ containsBeforeDot(fieldName, "static")

textPatterns(fieldName) ==
    lowerCase(fieldName) \in
        { <<"e", DOT, "g">>, <<"i", DOT, "e">>, <<"etc">>, <<"vs">>,
          <<"cmd", DOT, "exe">>, <<"powershell", DOT, "exe">> }

windowsExecutablePatterns(fieldName) ==
    \/ onlyDotBefore(fieldName, {"exe", "dll", "bat", "msi", "scr"})
    \/ lowerCase(fieldName) = <<"cmd">>

uiConfigPatterns(fieldName) ==
    \/ firstSegmentIn(fieldName,
          {"griddata", "embeddableconfig", "panelconfig", "dashboardconfig",
           "visualizationconfig", "layoutconfig", "uistate", "appstate",
           "globalstate", "columns", "dataproviders", "example", "template"})
    \/ /\ Len(fieldName) >= 3
       /\ toLowerCase(fieldName[1]) = "meta"
       /\ fieldName[2] = DOT
       /\ wordStartsWith(toLowerCase(fieldName[3]), "anything")
    \/ \E i \in DOMAIN fieldName : toLowerCase(fieldName[i]) = "anything_you_want"
    \/ Len(fieldName) >= 1 /\ wordStartsWith(toLowerCase(fieldName[1]), "ui_")

\* the two sides of the one dot of a name, when it has exactly one
beforeOnlyDot(s) == SubSeq(s, 1, Min({i \in DOMAIN s : s[i] = DOT}) - 1)
afterOnlyDot(s) == SubSeq(s, Min({i \in DOMAIN s : s[i] = DOT}) + 1, Len(s))
hasOneDot(s) == Cardinality({i \in DOMAIN s : s[i] = DOT}) = 1

idePatterns(fieldName) ==
    \/ /\ onlyDotBefore(fieldName, {"markdown", "extension", "plugin"})
       /\ onlyLetters(SubSeq(fieldName, 1, Len(fieldName) - 2))
    \/ firstSegmentIn(fieldName, {"vscode", "extensions", "settings"})
    \/ lowerCase(fieldName) = <<"ela", DOT, "st">>
    \/ /\ hasOneDot(fieldName)
       /\ onlyLetters(beforeOnlyDot(fieldName))
       /\ onlyLetters(afterOnlyDot(fieldName))
       /\ stringLength(beforeOnlyDot(fieldName)) \in {2, 3}
       /\ stringLength(afterOnlyDot(fieldName)) \in {2, 3}

\* the artifacts String.prototype.includes looks for, as left.right
jsArtifacts ==
    { <<"jest", "fn">>, <<"jest", "mock">>, <<"jest", "Mock">>,
      <<"jest", "clearAllMocks">>, <<"jest", "resetAllMocks">>,
      <<"React", "memo">>, <<"React", "Component">>, <<"React", "useState">>,
      <<"React", "useEffect">>, <<"i18n", "translate">>,
      <<"console", "log">>, <<"console", "error">>, <<"console", "warn">>,
      <<"window", "location">>, <<"document", "getElementById">>,
      <<"Object", "keys">>, <<"JSON", "stringify">>, <<"Array", "from">>,
      <<"String", "prototype">>, <<"Number", "prototype">>,
      <<"Math", "random">>, <<"process", "env">>, <<"module", "exports">>,
      <<"require", "resolve">>, <<"B", "V">> }

includesArtifact(fieldName) ==
    \E artifact \in jsArtifacts :
        containsDotted(fieldName, artifact[1], artifact[2])

singleWordECSFields ==
    { <<"@", "timestamp">>, <<"message">>, <<"tags">>, <<"labels">>,
      <<"error">>, <<"level">> }

\* the last test of isValidESFieldName
isValidFormat(fieldName) ==
    /\ ecsNameFormat(fieldName)
    /\ longerThanOne(fieldName)
    /\ ~\E i \in 1..(Len(fieldName) - 1) : fieldName[i] = DOT /\ fieldName[i + 1] = DOT
    /\ ~StartsWith(fieldName, <<DOT>>)
    /\ ~EndsWith(fieldName, <<DOT>>)

\* isValidESFieldName without the call of isCommonAPIPattern
isValidESFieldName_noAPICheck(fieldName) ==
    IF fieldName = <<"@", "timestamp">> THEN TRUE
    ELSE /\ isValidFieldNameWithPrefixes(fieldName)
         /\ ~filePatterns(fieldName)
         /\ ~urlPatterns(fieldName)
         /\ ~assetPatterns(fieldName)
         /\ ~textPatterns(fieldName)
         /\ ~windowsExecutablePatterns(fieldName)
         /\ ~uiConfigPatterns(fieldName)
         /\ ~idePatterns(fieldName)
         /\ ~includesArtifact(fieldName)
         /\ includesDot(fieldName) \/ fieldName \in singleWordECSFields
         /\ isValidFormat(fieldName)

\* isValidESFieldName without the dot requirement
isValidESFieldName_anyWord(fieldName) ==
    IF fieldName = <<"@", "timestamp">> THEN TRUE
    ELSE /\ isValidFieldNameWithPrefixes(fieldName)
         /\ ~filePatterns(fieldName)
         /\ ~urlPatterns(fieldName)
         /\ ~assetPatterns(fieldName)
         /\ ~textPatterns(fieldName)
         /\ ~windowsExecutablePatterns(fieldName)
         /\ ~uiConfigPatterns(fieldName)
         /\ ~idePatterns(fieldName)
         /\ ~includesArtifact(fieldName)
         /\ ~isCommonAPIPattern(fieldName)
         /\ isValidFormat(fieldName)

\* utils isValidESFieldName, which FieldParser.isValidESFieldName and
\* ESClientParser.isValidFieldName return
isValidESFieldName(fieldName) ==
    IF fieldName = <<"@", "timestamp">> THEN TRUE
    ELSE /\ isValidFieldNameWithPrefixes(fieldName)
         /\ ~filePatterns(fieldName)
         /\ ~urlPatterns(fieldName)
         /\ ~assetPatterns(fieldName)
         /\ ~textPatterns(fieldName)
         /\ ~windowsExecutablePatterns(fieldName)
         /\ ~uiConfigPatterns(fieldName)
         /\ ~idePatterns(fieldName)
         /\ ~includesArtifact(fieldName)
         /\ ~isCommonAPIPattern(fieldName)
         /\ includesDot(fieldName) \/ fieldName \in singleWordECSFields
         /\ isValidFormat(fieldName)

---------------------------------------------------------------------------
(* The validator on its own: a caller hands a name to isValidESFieldName   *)
(* or to isCommonAPIPattern.                                               *)

\* names of fields of documents
FieldNames ==
    { Name(<<"user", "name">>), Name(<<"host", "ip">>),
      Name(<<"event", "category">>), Name(<<"process", "parent", "pid">>),
      Name(<<"process", "pid">>), Name(<<"log", "level">>),
      Name(<<"log", "logger">>), Name(<<"kibana", "alert", "user", "name">>),
      Name(<<"tanium", "id">>), Name(<<"custom", "id">>),
      Name(<<"dns", "id">>), Name(<<"http", "request", "method">>),
      Name(<<"process", "env_vars">>), Name(<<"user", "name", "text">>),
      <<"@", "timestamp">>, <<"message">>, <<"tags">>, <<"labels">>,
      <<"error">>, <<"level">>, <<"@", "user", DOT, "name">>,
      <<"user", DOT, "name", "x">> }

\* dotted member expressions of JavaScript and TypeScript code
MemberExpressions ==
    { Name(<<"console", "log">>), Name(<<"Object", "keys">>),
      Name(<<"router", "versioned">>), Name(<<"logger", "error">>),
      Name(<<"z", "infer">>), Name(<<"Array", "isArray">>),
      Name(<<"Math", "random">>), Name(<<"JSON", "stringify">>),
      Name(<<"jest", "fn">>), Name(<<"expect", "anything">>),
      Name(<<"CONFIG", "value">>), Name(<<"config", "value">>),
      Name(<<"app", "get">>), Name(<<"request", "body">>),
      Name(<<"it", "each">>), Name(<<"client", "search">>) }

\* other strings a pattern can capture
Artifacts ==
    { Name(<<"icon", "png">>), Name(<<"styles", "css">>),
      Name(<<"index", "js">>), Name(<<"readme", "md">>),
      Name(<<"backup", "7z">>), Name(<<"github", "com">>),
      Name(<<"elastic", "co">>), Name(<<"www", "elastic">>),
      Name(<<"docs", "elastic", "co", "guide">>),
      Name(<<"assets", "logo">>), Name(<<"myassets", "logo">>),
      Name(<<"static", "files">>),
      Name(<<"e", "g">>), Name(<<"i", "e">>), <<"etc">>, <<"vs">>, <<"cmd">>,
      Name(<<"cmd", "exe">>), Name(<<"svchost", "exe">>),
      Name(<<"kernel32", "dll">>),
      Name(<<"gridData", "x">>), Name(<<"uiState", "value">>),
      Name(<<"ui_state", "x">>), Name(<<"template", "name">>),
      Name(<<"meta", "anything_you_want">>),
      Name(<<"yzhang", "markdown">>), Name(<<"vscode", "git">>),
      Name(<<"settings", "json">>), Name(<<"ela", "st">>),
      <<>>, <<"a">>, <<"ab">>, <<"user">>, <<"timestamp">>,
      <<"@", "message">>, <<"user", DOT, DOT, "name">>,
      <<DOT, "user">>, <<DOT, "user", DOT, "name">>, <<"user", DOT>>,
      <<"user", "-", "name">>, <<"user", DOT, "7z">> }

\* identifiers that look like hashes: a digest, a GUID, a digest as a
\* dot-segment of a name
HashLike ==
    { <<"d41d8cd98f00b204e9800998ecf8427e">>,
      <<"0cc175b9c0f1b6a831c399e269772661">>,
      <<"f47ac10b", "-", "c8cc", "-", "b372", "-", "d567", "-", "fe02b2c3d479">>,
      Name(<<"x", "d41d8cd98f00b204e9800998ecf8427e", "z">>),
      Name(<<"x", "0cc175b9c0f1b6a831c399e269772661", "z">>),
      Name(<<"user", "d41d8cd98f00b204e9800998ecf8427e", "name">>) }

ValidatorInputs == FieldNames \cup MemberExpressions \cup Artifacts \cup HashLike

InitValidate ==
    /\ pc = "call"
    /\ \E fn \in {"isValidESFieldName", "isCommonAPIPattern"},
          name \in ValidatorInputs : args = [fn |-> fn, fieldName |-> name]
    /\ returned = Null
    /\ coreFields = {}
    /\ vendorFile \in { f \in VendorFiles : ~f.exists }
    /\ vendorFields = {}
    /\ includeTests = FALSE
    /\ NoAnalysis
    /\ NoBraceScan
    /\ NoFetching

CallIsValidESFieldName ==
    /\ pc = "call"
    /\ args.fn = "isValidESFieldName"
    /\ returned' = isValidESFieldName(args.fieldName)
    /\ pc' = "return"
    /\ UNCHANGED <<coreFields, vendorFields, vendorFile, includeTests, args,
                   analysis, braceScan, fetching>>

CallIsCommonAPIPattern ==
    /\ pc = "call"
    /\ args.fn = "isCommonAPIPattern"
    /\ returned' = isCommonAPIPattern(args.fieldName)
    /\ pc' = "return"
    /\ UNCHANGED <<coreFields, vendorFields, vendorFile, includeTests, args,
                   analysis, braceScan, fetching>>

NextValidate == CallIsValidESFieldName \/ CallIsCommonAPIPattern

SpecValidate == InitValidate /\ [][NextValidate]_vars

---------------------------------------------------------------------------
(* FieldParser.parseECSFields.  A reference CSV is its header row, the     *)
(* names of the columns, and its data rows, each with a cell per column.   *)

\* record[name] of the record csv-parse gives for a row with columns: true
\* and trim: true: the trimmed cell of the column the header row names so,
\* undefined (the empty string here, falsy too) when it names none
column(csv, row, name) ==
    IF \E j \in DOMAIN csv.header : csv.header[j] = name
    THEN trim(csv.rows[row][Max({j \in DOMAIN csv.header : csv.header[j] = name})])
    ELSE <<>>

\* fieldValue reading the first cell of the row
fieldValue_firstColumn(csv, row) == trim(csv.rows[row][1])

\* const fieldValue = record.field || record.Field || record.FIELD
fieldValue(csv, row) ==
    IF Truthy(column(csv, row, "field")) THEN column(csv, row, "field")
    ELSE IF Truthy(column(csv, row, "Field")) THEN column(csv, row, "Field")
    ELSE column(csv, row, "FIELD")

parseECSFields(csv) ==
    { trim(fieldValue(csv, row)) : row \in
        { r \in DOMAIN csv.rows :
            /\ Truthy(fieldValue(csv, r))
            /\ Truthy(trim(fieldValue(csv, r)))
            /\ isValidECSFieldName(trim(fieldValue(csv, r))) } }

\* the most data rows of a reference CSV
MaxRows == 2

\* the field-column values of a reference CSV
CsvValues ==
    { Name(<<"user", "name">>), Name(<<"host", "ip">>), <<"message">>,
      <<" ", "user", DOT, "name", " ">>,
      <<>>, <<"invalid", "-", "field">>, <<"user", DOT>> }

\* header rows: the field column under its three names, first or second,
\* and a header without a field column
Headers ==
    { <<"field", "type">>, <<"type", "field">>, <<"type", "Field">>,
      <<"FIELD">>, <<"name", "type">> }

\* the CSV with the header and the values in its field (or name) column;
\* the cells of the type column hold 'keyword'
csvOf(header, values) ==
    [header |-> header,
     rows |-> [i \in DOMAIN values |->
                  [j \in DOMAIN header |->
                      IF header[j] = "type" THEN <<"keyword">> ELSE values[i]]]]

\* reference CSV files
CsvInputs ==
    { csvOf(h, r) :
        h \in Headers,
        r \in UNION { [1..k -> CsvValues] : k \in 0..MaxRows } }

---------------------------------------------------------------------------
(* The schema guard: a reference CSV is parsed, and the validator of       *)
(* extracted names is then asked about a field of the schema or about a    *)
(* sub-field of one.                                                       *)

\* field names of the reference schema, and other cells of its field column
SchemaValues ==
    { <<"@", "timestamp">>, <<"message">>, Name(<<"log", "level">>),
      Name(<<"process", "pid">>), Name(<<"user", "name">>),
      Name(<<"http", "request", "method">>), Name(<<"dns", "id">>),
      Name(<<"process", "env_vars">>),
      <<" ", "host", DOT, "ip", " ">>, <<>>, <<"invalid", "-", "field">> }

SchemaCsvInputs ==
    { csvOf(h, r) :
        h \in Headers,
        r \in UNION { [1..k -> SchemaValues] : k \in 0..MaxRows } }

\* the sub-fields the guard asks about
SubFields ==
    { Name(<<"process", "parent", "pid">>), Name(<<"log", "logger">>) }

InitSchema ==
    /\ pc = "call"
    /\ \E csv \in SchemaCsvInputs :
          args = [fn |-> "parseECSFields", csvContent |-> csv]
    /\ returned = Null
    /\ coreFields = {}
    /\ vendorFile \in { f \in VendorFiles : ~f.exists }
    /\ vendorFields = {}
    /\ includeTests = FALSE
    /\ NoAnalysis
    /\ NoBraceScan
    /\ NoFetching

\* const ecs = parser.parseECSFields(csvContent)
CallParseECSFields ==
    /\ pc = "call"
    /\ args.fn = "parseECSFields"
    /\ coreFields' = parseECSFields(args.csvContent)
    /\ returned' = parseECSFields(args.csvContent)
    /\ pc' = "parsed"
    /\ UNCHANGED <<vendorFields, vendorFile, includeTests, args, analysis, braceScan, fetching>>

\* parser.isValidESFieldName(field) for a field of the parsed schema or for
\* one of the sub-fields
GuardIsValidESFieldName ==
    /\ pc = "parsed"
    /\ \E field \in coreFields \cup SubFields :
          /\ args' = [fn |-> "isValidESFieldName", fieldName |-> field]
          /\ returned' = isValidESFieldName(field)
    /\ pc' = "return"
    /\ UNCHANGED <<coreFields, vendorFields, vendorFile, includeTests, analysis, braceScan, fetching>>

NextSchema == CallParseECSFields \/ GuardIsValidESFieldName

SpecSchema == InitSchema /\ [][NextSchema]_vars

---------------------------------------------------------------------------
(* Files of the scanned repository *)

user_name == Name(<<"user", "name">>)
host_ip == Name(<<"host", "ip">>)
custom_id == Name(<<"custom", "id">>)
tanium_id == Name(<<"tanium", "id">>)
kibana_space_id == Name(<<"kibana", "space", "id">>)
kibana_alert_user_name == Name(<<"kibana", "alert", "user", "name">>)

\* A file: its path, the symbols of its absolute path and its extension;
\* whether fs.statSync fails on it or finds more than 1 MB; what
\* fs.readFile gives ("text", "empty", or "unreadable" when it throws); hits,
\* the validated field names the extractors add to the Set, in order;
\* throwAfter, the number of hits added when an extractor throws (-1: none
\* throws); throwsIn, the call of analyzeFile's try block that throws, if any.
\* FileCatalog lists the files in the order of their paths.
FileCatalog ==
    << [path |-> "a.js",
        segments |-> <<"/", "repo", "/", "a", DOT, "js">>,
        ext |-> ".js", statFails |-> FALSE, content |-> "text",
        hits |-> <<user_name, host_ip>>, throwAfter |-> -1, throwsIn |-> "none"],
       [path |-> "b.ts",
        segments |-> <<"/", "repo", "/", "b", DOT, "ts">>,
        ext |-> ".ts", statFails |-> FALSE, content |-> "text",
        hits |-> <<kibana_space_id, user_name, kibana_space_id>>,
        throwAfter |-> -1, throwsIn |-> "none"],
       [path |-> "c.json",
        segments |-> <<"/", "repo", "/", "c", DOT, "json">>,
        ext |-> ".json", statFails |-> FALSE, content |-> "text",
        hits |-> <<custom_id, tanium_id>>, throwAfter |-> -1, throwsIn |-> "none"],
       [path |-> "d.ts",
        segments |-> <<"/", "repo", "/", "d", DOT, "ts">>,
        ext |-> ".ts", statFails |-> FALSE, content |-> "text",
        hits |-> <<user_name, custom_id>>, throwAfter |-> 1, throwsIn |-> "none"],
       [path |-> "e.js.map",
        segments |-> <<"/", "repo", "/", "e", DOT, "js", DOT, "map">>,
        ext |-> ".map", statFails |-> FALSE, content |-> "text",
        hits |-> <<user_name>>, throwAfter |-> -1, throwsIn |-> "none"],
       [path |-> "f.js",
        segments |-> <<"/", "repo", "/", "f", DOT, "js">>,
        ext |-> ".js", statFails |-> FALSE, content |-> "empty",
        hits |-> <<>>, throwAfter |-> -1, throwsIn |-> "none"],
       [path |-> "g.js",
        segments |-> <<"/", "repo", "/", "g", DOT, "js">>,
        ext |-> ".js", statFails |-> FALSE, content |-> "text",
        hits |-> <<>>, throwAfter |-> -1, throwsIn |-> "none"],
       [path |-> "h.ts",
        segments |-> <<"/", "repo", "/", "h", DOT, "ts">>,
        ext |-> ".ts", statFails |-> FALSE, content |-> "text",
        hits |-> <<kibana_alert_user_name, host_ip>>,
        throwAfter |-> -1, throwsIn |-> "categorizeFields"],
       [path |-> "i.yml",
        segments |-> <<"/", "repo", "/", "i", DOT, "yml">>,
        ext |-> ".yml", statFails |-> FALSE, content |-> "unreadable",
        hits |-> <<>>, throwAfter |-> -1, throwsIn |-> "none"],
       [path |-> "j.txt",
        segments |-> <<"/", "repo", "/", "j", DOT, "txt">>,
        ext |-> ".txt", statFails |-> TRUE, content |-> "text",
        hits |-> <<custom_id>>, throwAfter |-> -1, throwsIn |-> "none"] >>

\* the most files scanDirectory returns
MaxFiles == 3

\* [...new Set(allFiles)].sort(): the sorted lists of distinct files
FileLists ==
    { l \in UNION { [1..k -> DOMAIN FileCatalog] : k \in 0..MaxFiles } :
        \A i, j \in DOMAIN l : i < j => l[i] < l[j] }

---------------------------------------------------------------------------
(* FileScanner.shouldSkipFile, getFileType, readFileContent *)

skipExtensions == {".map", ".d.ts"}

\* FileScanner.isTestFile: the lower-case path includes '/test/', '/tests/',
\* '/__tests__/', '.test.' or '.spec.'
isTestFile(filePath) ==
    LET normalizedPath == lowerCase(filePath)
    IN  \E i \in 1..(Len(normalizedPath) - 2) :
            \/ /\ normalizedPath[i] = "/"
               /\ normalizedPath[i + 1] \in {"test", "tests", "__tests__"}
               /\ normalizedPath[i + 2] = "/"
            \/ /\ normalizedPath[i] = DOT
               /\ normalizedPath[i + 1] \in {"test", "spec"}
               /\ normalizedPath[i + 2] = DOT

\* shouldSkipFile without the test-file check
shouldSkipFile_anyTestFile(file) ==
    IF file.ext \in skipExtensions THEN TRUE
    ELSE file.statFails

\* this.includeTests is the option the scanner was constructed with
shouldSkipFile(file) ==
    IF ~includeTests /\ isTestFile(file.segments) THEN TRUE
    ELSE IF file.ext \in skipExtensions THEN TRUE
    ELSE file.statFails

getFileType(file) ==
    CASE file.ext \in {".js", ".jsx"} -> "javascript"
      [] file.ext \in {".ts", ".tsx"} -> "typescript"
      [] file.ext = ".json" -> "json"
      [] file.ext \in {".yml", ".yaml"} -> "yaml"
      [] file.ext = ".md" -> "markdown"
      [] file.ext = ".txt" -> "text"
      [] OTHER -> "unknown"

\* the content is falsy: readFile gave '' or threw (readFileContent gives null)
noContent(file) == file.content \in {"empty", "unreadable"}

---------------------------------------------------------------------------
(* FieldParser.extractFieldsFromContent *)

RECURSIVE addAll(_, _)
\* fields.add(hit) for each hit, then Array.from(fields): insertion order,
\* each value once
addAll(list, hits) ==
    IF Len(hits) = 0 THEN list
    ELSE addAll(IF \E i \in DOMAIN list : list[i] = hits[1]
                THEN list ELSE Append(list, hits[1]),
                Tail(hits))

\* the extractors add the hits to the Set until one throws; the catch logs
\* the error and the Set as it is then is returned
extractFieldsFromContent(file) ==
    addAll(<<>>, IF file.throwAfter >= 0
                 THEN SubSeq(file.hits, 1, file.throwAfter)
                 ELSE file.hits)

---------------------------------------------------------------------------
(* FieldParser.extractFieldsFromContent on the text of a file.  A content  *)
(* is a sequence of lines, each of them one lexeme:                        *)
(*   "string"   'text'                      a quoted string                *)
(*   "member"   text(...)                   an unquoted member expression  *)
(*   "field"    field: 'text'               an aggregation field           *)
(*   "term"     term: { 'text': ... }       a term query                   *)
(*   "key"      text: ...                   a key at the start of a line   *)
(*   "pair"     "text": "value",            a member of a JSON object      *)
(*   "mapping"  'text': { type: 'keyword' } a field of a mapping           *)
(*   "properties"  properties: { ... }      a properties block; its value  *)
(*              is the fragment between the braces, a sequence of string,  *)
(*              pair and mapping lexemes                                   *)
(* No text holds a quote and the words of a text are separated by dots or  *)
(* other punctuation.  A content of pair lexemes only is the JSON object   *)
(* of those members; every other content is not JSON.                      *)

Lexeme(syntax, text) == [syntax |-> syntax, text |-> text, value |-> <<>>]

Pair(key, value) == [syntax |-> "pair", text |-> key, value |-> value]

RECURSIVE Concat(_)
\* the sequences of a sequence, one after the other
Concat(lists) ==
    IF Len(lists) = 0 THEN <<>> ELSE Head(lists) \o Concat(Tail(lists))

\* properties: { fragment }
Properties(fragment) ==
    [syntax |-> "properties", text |-> <<"properties">>, value |-> fragment]

\* the strings of a lexeme of a fragment that stand between quotes, in order
quotedTextsOfLine(lexeme) ==
    CASE lexeme.syntax \in {"string", "field", "term"} -> <<lexeme.text>>
      [] lexeme.syntax = "pair" -> <<lexeme.text, lexeme.value>>
      [] lexeme.syntax = "mapping" -> <<lexeme.text, <<"keyword">>>>
      [] OTHER -> <<>>

\* the strings of a lexeme that stand between quotes, in order
quotedTexts(lexeme) ==
    IF lexeme.syntax = "properties"
    THEN Concat([k \in DOMAIN lexeme.value |-> quotedTextsOfLine(lexeme.value[k])])
    ELSE quotedTextsOfLine(lexeme)

\* the strings of a lexeme of a fragment, in order
allTextsOfLine(lexeme) ==
    CASE lexeme.syntax = "pair" -> <<lexeme.text, lexeme.value>>
      [] lexeme.syntax = "mapping" -> <<lexeme.text, <<"type">>, <<"keyword">>>>
      [] OTHER -> <<lexeme.text>>

\* the strings of a lexeme, in order
allTexts(lexeme) ==
    IF lexeme.syntax = "properties"
    THEN <<lexeme.text>>
             \o Concat([k \in DOMAIN lexeme.value |-> allTextsOfLine(lexeme.value[k])])
    ELSE allTextsOfLine(lexeme)

\* /['"']([a-zA-Z@][a-zA-Z0-9_]*(?:\.[a-zA-Z][a-zA-Z0-9_]*)*)['"']/g: the
\* quoted strings that are of the format from quote to quote
quotedPattern(content) ==
    Concat([i \in DOMAIN content |->
               SelectSeq(quotedTexts(content[i]), ecsNameFormat)])

RECURSIVE runEnd(_, _)
\* (?:\.[a-zA-Z][a-zA-Z0-9_]*)* is greedy: the last place of the run of
\* dot-separated words that has a word at place j
runEnd(s, j) ==
    IF j + 2 <= Len(s) /\ s[j + 1] = DOT /\ startsWithLetter(s[j + 2])
    THEN runEnd(s, j + 2)
    ELSE j

RECURSIVE dottedRuns(_, _)
\* /\b([a-zA-Z][a-zA-Z0-9_]*\.[a-zA-Z][a-zA-Z0-9_]*(?:\.[a-zA-Z][a-zA-Z0-9_]*)*)\b/g
\* on a string, from place i on: the runs of two or more dot-separated
\* words, each found where the last one ended
dottedRuns(s, i) ==
    IF i > Len(s) THEN <<>>
    ELSE IF /\ startsWithLetter(s[i])
            /\ i = 1 \/ ~isWord(s[i - 1])
            /\ i + 2 <= Len(s)
            /\ s[i + 1] = DOT
            /\ startsWithLetter(s[i + 2])
         THEN <<SubSeq(s, i, runEnd(s, i + 2))>>
                  \o dottedRuns(s, runEnd(s, i + 2) + 1)
         ELSE dottedRuns(s, i + 1)

\* the unquoted pattern on the content: it looks inside the quotes too
unquotedPattern(content) ==
    Concat([i \in DOMAIN content |->
               Concat([k \in DOMAIN allTexts(content[i]) |->
                          dottedRuns(allTexts(content[i])[k], 1)])])

\* /^[\s]*([a-zA-Z@][a-zA-Z0-9_]*(?:\.[a-zA-Z][a-zA-Z0-9_]*)*)\s*:/gm: the
\* words and names that begin a line and have a colon after them
keyPattern(content) ==
    Concat([i \in DOMAIN content |->
               CASE content[i].syntax = "key" ->
                        SelectSeq(<<content[i].text>>, ecsNameFormat)
                 [] content[i].syntax \in {"field", "term", "properties"} ->
                        <<<<content[i].syntax>>>>
                 [] OTHER -> <<>>])

\* the quoted strings of the lexemes of one syntax
quotedOf(content, syntax) ==
    Concat([i \in DOMAIN content |->
               IF content[i].syntax = syntax THEN <<content[i].text>> ELSE <<>>])

\* the content with the lines of each properties block in place of it
lines(content) ==
    Concat([i \in DOMAIN content |->
               IF content[i].syntax = "properties" THEN content[i].value
               ELSE <<content[i]>>])

\* the format with (?:\.[a-zA-Z][a-zA-Z0-9_]*)+ : at least one dot
dottedNameFormat(fieldName) ==
    ecsNameFormat(fieldName) /\ includesDot(fieldName)

\* utilIsValidESFieldName(fieldName) && !utilIsCommonAPIPattern(fieldName)
validAndNotAPI(fieldName) ==
    isValidESFieldName(fieldName) /\ ~isCommonAPIPattern(fieldName)

\* fieldName is not the empty string
nonEmpty(fieldName) == Len(fieldName) > 0

(* Mapping trees.  A parsed JSON value is a string or an object; an object *)
(* is the sequence of its members in the order of Object.entries, each a   *)
(* key and a value.  No object has a key twice.                            *)

StringValue(text) == [kind |-> "string", text |-> text, entries |-> <<>>]

ObjectValue(entries) == [kind |-> "object", text |-> <<>>, entries |-> entries]

Member(key, value) == [key |-> key, value |-> value]

\* the value is an object with the key
hasKey(value, key) ==
    /\ value.kind = "object"
    /\ \E i \in DOMAIN value.entries : value.entries[i].key = key

\* value[key], for a value that has the key
member(value, key) ==
    value.entries[CHOOSE i \in DOMAIN value.entries : value.entries[i].key = key].value

\* value[key] is truthy: an object, or a string that is not empty; a string
\* value has no own property of these names
truthyMember(value, key) ==
    /\ hasKey(value, key)
    /\ member(value, key).kind = "object" \/ Len(member(value, key).text) > 0

\* fieldPath ? `${fieldPath}.${fieldName}` : fieldName
currentFieldPath(fieldPath, fieldName) ==
    IF Len(fieldPath) > 0 THEN fieldPath \o <<DOT>> \o fieldName ELSE fieldName

RECURSIVE extractFieldsFromMappingObject(_, _)
\* ESClientParser.extractFieldsFromMappingObject(obj, fields, fieldPath): the
\* names it adds, in order.  Object.entries of a string gives its characters
\* under the keys '0', '1', ..., and no path that ends in such a key is valid.
extractFieldsFromMappingObject(obj, fieldPath) ==
    IF obj.kind = "string" THEN <<>>
    ELSE Concat([i \in DOMAIN obj.entries |->
            LET fieldDef == obj.entries[i].value
                path == currentFieldPath(fieldPath, obj.entries[i].key)
            IN  IF truthyMember(fieldDef, <<"properties">>)
                THEN extractFieldsFromMappingObject(
                         member(fieldDef, <<"properties">>), path)
                ELSE IF truthyMember(fieldDef, <<"type">>)
                THEN SelectSeq(<<path>>, isValidESFieldName)
                ELSE SelectSeq(<<path>>, isValidESFieldName)])

RECURSIVE extractFromMappingDefinition(_, _)
\* FieldParser.extractFromMappingDefinition(obj, fields, fieldPath): the names
\* it adds, in order
extractFromMappingDefinition(obj, fieldPath) ==
    IF obj.kind = "string" THEN <<>>
    ELSE IF /\ truthyMember(obj, <<"mappings">>)
            /\ truthyMember(member(obj, <<"mappings">>), <<"properties">>)
    THEN extractFromMappingDefinition(
             member(member(obj, <<"mappings">>), <<"properties">>), <<>>)
    ELSE IF truthyMember(obj, <<"properties">>)
    THEN extractFromMappingDefinition(member(obj, <<"properties">>), fieldPath)
    ELSE Concat([i \in DOMAIN obj.entries |->
            LET fieldDef == obj.entries[i].value
                path == currentFieldPath(fieldPath, obj.entries[i].key)
            IN  IF truthyMember(fieldDef, <<"properties">>)
                THEN extractFromMappingDefinition(
                         member(fieldDef, <<"properties">>), path)
                ELSE IF truthyMember(fieldDef, <<"type">>)
                THEN SelectSeq(<<path>>, isValidESFieldName)
                ELSE SelectSeq(<<path>>, isValidESFieldName)])

\* obj[key] of the parsed object: the value of the last member with the key
valueOf(content, key) ==
    content[Max({i \in DOMAIN content : content[i].text = key})].value

\* JSON.parse(`{${propertiesContent}}`) returns: the fragment is empty or
\* has the members of a JSON object only
isJSONFragment(fragment) ==
    \A i \in DOMAIN fragment : fragment[i].syntax = "pair"

\* the object JSON.parse gives for a fragment of members: each key once, at
\* the place of its first member, with the value of its last
parsedFragment(fragment) ==
    ObjectValue(Concat([i \in DOMAIN fragment |->
        IF \E j \in 1..(i - 1) : fragment[j].text = fragment[i].text
        THEN <<>>
        ELSE <<Member(fragment[i].text,
                      StringValue(valueOf(fragment, fragment[i].text)))>>]))

\* ESClientParser.extractFieldsFromMappingContentPattern: the quoted keys of
\* the name format that have { ... type: after them, then the quoted strings
\* of the name format with a dot, of the fragment
extractFieldsFromMappingContentPattern(propertiesContent) ==
    SelectSeq(SelectSeq(quotedOf(propertiesContent, "mapping"), ecsNameFormat)
                  \o SelectSeq(quotedPattern(propertiesContent), dottedNameFormat),
              isValidESFieldName)

\* extractFieldsFromMappingProperties with nothing done when JSON.parse throws
extractFieldsFromMappingProperties_noFallback(propertiesContent) ==
    IF isJSONFragment(propertiesContent)
    THEN extractFieldsFromMappingObject(parsedFragment(propertiesContent), <<>>)
    ELSE <<>>

\* ESClientParser.extractFieldsFromMappingProperties: try JSON.parse and the
\* walk of the object, catch: the patterns on the fragment
extractFieldsFromMappingProperties(propertiesContent) ==
    IF isJSONFragment(propertiesContent)
    THEN extractFieldsFromMappingObject(parsedFragment(propertiesContent), <<>>)
    ELSE extractFieldsFromMappingContentPattern(propertiesContent)

\* ESClientParser.extractFromMappings: no content here has 'mappings:' before
\* a properties block, so the first pattern finds nothing; then the block at
\* content.indexOf('properties'), from its brace to the matching brace
extractFromMappings(content) ==
    LET blocks == {i \in DOMAIN content : content[i].syntax = "properties"}
    IN  IF blocks = {} THEN <<>>
        ELSE extractFieldsFromMappingProperties(content[Min(blocks)].value)

\* ESClientParser.extractESClientFields: of its patterns extractFromQueryDSL's
\* /term\s*:\s*\{\s*['"']([^'"']+)['"']\s*:/g is the one these contents
\* match, after extractFromMappings, and the fields it keeps are the valid
\* ones
extractESClientFields(content) ==
    addAll(<<>>, extractFromMappings(content)
                     \o SelectSeq(SelectSeq(quotedOf(content, "term"), nonEmpty),
                                  isValidESFieldName))

\* extractFromExplicitESContexts: the term pattern, then the field pattern,
\* then the pattern of the keys of a mapping
extractFromExplicitESContexts(content) ==
    SelectSeq(SelectSeq(quotedOf(content, "term"), dottedNameFormat)
                  \o SelectSeq(quotedOf(content, "field"), dottedNameFormat)
                  \o SelectSeq(quotedOf(lines(content), "mapping"), dottedNameFormat),
              validAndNotAPI)

\* extractWithPatterns adding what it finds without asking the validator
extractWithPatterns_unchecked(captures) == captures

\* extractWithPatterns: if (fieldName && utilIsValidESFieldName(fieldName))
extractWithPatterns(captures) ==
    SelectSeq(SelectSeq(captures, nonEmpty), isValidESFieldName)

\* the hits of extractFromJavaScript in the order they are added
extractFromJavaScript(content) ==
    SelectSeq(extractESClientFields(content), isValidESFieldName)
        \o extractFromExplicitESContexts(content)
        \o extractWithPatterns(quotedPattern(content) \o unquotedPattern(content))

extractFromYAML(content) ==
    extractWithPatterns(keyPattern(content) \o quotedPattern(content))

extractFromText(content) ==
    extractWithPatterns(quotedPattern(content) \o unquotedPattern(content))

\* JSON.parse(content) returns: the content is an object of string members
isJSON(content) ==
    Len(content) > 0 /\ \A i \in DOMAIN content : content[i].syntax = "pair"

\* extractFromObject on an object of string members, Object.entries in the
\* order of the first member of each key: the key, then the value
extractFromObject(content) ==
    Concat([i \in DOMAIN content |->
               IF \E j \in 1..(i - 1) : content[j].text = content[i].text
               THEN <<>>
               ELSE SelectSeq(<<content[i].text,
                                valueOf(content, content[i].text)>>,
                              isValidESFieldName)])

extractFromJSON(content) ==
    IF isJSON(content) THEN extractFromObject(content)
    ELSE extractFromText(content)

\* filePath.split('.').pop().toLowerCase()
fileExt(filePath) ==
    CASE filePath = "a.js" -> "js"
      [] filePath = "b.ts" -> "ts"
      [] filePath = "App.TSX" -> "tsx"
      [] filePath = "c.json" -> "json"
      [] filePath = "i.yml" -> "yml"
      [] filePath = "j.txt" -> "txt"
      [] OTHER -> filePath

\* extractFieldsFromContent(content, filePath): the switch on the extension
\* and Array.from(fields)
extractFieldsFrom(content, filePath) ==
    addAll(<<>>,
           CASE fileExt(filePath) \in {"js", "ts", "tsx", "jsx"} ->
                    extractFromJavaScript(content)
             [] fileExt(filePath) = "json" -> extractFromJSON(content)
             [] fileExt(filePath) \in {"yml", "yaml"} -> extractFromYAML(content)
             [] OTHER -> extractFromText(content))

---------------------------------------------------------------------------
(* extractFieldsFromContent on its own: a content and a file path *)

\* the most lexemes of a content
MaxLexemes == 2

\* the dotted callees of the API calls of JavaScript code
APICallees ==
    { Name(<<"router", "versioned">>), Name(<<"logger", "error">>),
      Name(<<"z", "infer">>), Name(<<"Array", "isArray">>),
      Name(<<"console", "log">>), Name(<<"Object", "keys">>),
      Name(<<"Math", "random">>) }

\* the quoted field references of JavaScript code
QuotedFields ==
    { Name(<<"user", "name">>), Name(<<"event", "category">>),
      <<"@", "timestamp">> }

\* the lines of the contents
LexemePool ==
    { Lexeme("member", callee) : callee \in APICallees }
        \cup { Lexeme("string", field) : field \in QuotedFields }
        \cup { Lexeme("string", <<"Something", " ", "failed">>),
               Lexeme("field", Name(<<"user", "name">>)),
               Lexeme("term", Name(<<"event", "category">>)),
               Lexeme("key", Name(<<"host", "ip">>)),
               Pair(Name(<<"user", "name">>), Name(<<"host", "ip">>)),
               Pair(Name(<<"user", "name">>), Name(<<"z", "infer">>)),
               Lexeme("mapping", Name(<<"host", "ip">>)),
               Properties(<< Lexeme("mapping", Name(<<"user", "name">>)),
                             Lexeme("string", Name(<<"event", "category">>)) >>) }

Contents == UNION { [1..k -> LexemePool] : k \in 0..MaxLexemes }

FilePaths == {"a.js", "b.ts", "App.TSX", "c.json", "i.yml", "j.txt"}

InitExtract ==
    /\ pc = "call"
    /\ \E content \in Contents, filePath \in FilePaths :
          args = [fn |-> "extractFieldsFromContent", content |-> content,
                  filePath |-> filePath]
    /\ returned = Null
    /\ coreFields = {}
    /\ vendorFile \in { f \in VendorFiles : ~f.exists }
    /\ vendorFields = {}
    /\ includeTests = FALSE
    /\ NoAnalysis
    /\ NoBraceScan
    /\ NoFetching

CallExtractFieldsFromContent ==
    /\ pc = "call"
    /\ args.fn = "extractFieldsFromContent"
    /\ returned' = extractFieldsFrom(args.content, args.filePath)
    /\ pc' = "return"
    /\ UNCHANGED <<coreFields, vendorFields, vendorFile, includeTests, args,
                   analysis, braceScan, fetching>>

NextExtract == CallExtractFieldsFromContent

SpecExtract == InitExtract /\ [][NextExtract]_vars

---------------------------------------------------------------------------
(* The mapping walkers on their own: a parsed tree is handed to            *)
(* extractFromMappingDefinition or extractFieldsFromMappingObject.         *)

\* the most levels of nested properties of a mapping
MaxDepth == 2

\* the names of the fields of the mappings
MappingKeys == {<<"host">>, <<"name">>, <<"properties">>, <<"mappings">>}

\* the field definitions without sub-fields: with a type, without one (a
\* string in place of the definition, an object with no type)
LeafDefinitions ==
    { ObjectValue(<<Member(<<"type">>, StringValue(<<"keyword">>))>>),
      StringValue(<<"keyword">>),
      ObjectValue(<<>>) }

\* { properties: obj }
Container(obj) == ObjectValue(<<Member(<<"properties">>, obj)>>)

RECURSIVE FieldChains(_)
\* the objects of one field at most, with up to depth levels of nested
\* properties under it
FieldChains(depth) ==
    {ObjectValue(<<>>)} \cup
    { ObjectValue(<<Member(key, def)>>) :
        key \in MappingKeys,
        def \in LeafDefinitions \cup
                (IF depth = 0 THEN {}
                 ELSE { Container(obj) : obj \in FieldChains(depth - 1) }) }

\* the properties objects: a chain, or a chain and a field without
\* sub-fields next to it, in either order
PropertiesObjects ==
    FieldChains(MaxDepth) \cup
    { ObjectValue(a.entries \o b.entries) :
        a \in { c \in FieldChains(MaxDepth) : Len(c.entries) = 1 },
        b \in { c \in FieldChains(0) : Len(c.entries) = 1 } } \cup
    { ObjectValue(b.entries \o a.entries) :
        a \in { c \in FieldChains(MaxDepth) : Len(c.entries) = 1 },
        b \in { c \in FieldChains(0) : Len(c.entries) = 1 } }

\* no object has a key twice
distinctKeys(obj) ==
    \A i, j \in DOMAIN obj.entries :
        obj.entries[i].key = obj.entries[j].key => i = j

\* the parsed documents: a properties object, bare or as the
\* mappings.properties of a document
MappingTrees ==
    LET objects == { obj \in PropertiesObjects : distinctKeys(obj) }
    IN  objects \cup
        { ObjectValue(<<Member(<<"mappings">>, Container(obj))>>) : obj \in objects }

\* the lines of a properties block
FragmentPool ==
    { Lexeme("mapping", Name(<<"user", "name">>)),
      Lexeme("mapping", <<"message">>),
      Lexeme("string", Name(<<"event", "category">>)),
      Lexeme("string", Name(<<"console", "log">>)),
      Pair(Name(<<"host", "ip">>), <<"keyword">>),
      Pair(Name(<<"host", "ip">>), Name(<<"dns", "id">>)) }

\* the most lines of a properties block
MaxFragment == 2

\* the fragments between the braces of a properties block
Fragments == UNION { [1..k -> FragmentPool] : k \in 0..MaxFragment }

\* what stands before and after a properties block: nothing or one line
OtherParts ==
    { <<>>,
      << Lexeme("term", Name(<<"process", "pid">>)) >>,
      << Lexeme("string", Name(<<"log", "level">>)) >>,
      << Pair(Name(<<"user", "name">>), Name(<<"host", "ip">>)) >> }

\* the contents: with a properties block, and without one
MappingContents ==
    { before \o <<Properties(fragment)>> \o after :
        before \in OtherParts, fragment \in Fragments, after \in OtherParts }
    \cup { before \o after : before \in OtherParts, after \in OtherParts }

InitMappings ==
    /\ pc = "call"
    /\ \/ \E fn \in {"extractFromMappingDefinition", "extractFieldsFromMappingObject"},
             obj \in MappingTrees : args = [fn |-> fn, obj |-> obj]
       \/ \E fn \in {"extractESClientFields", "extractFromJSON"},
             content \in MappingContents : args = [fn |-> fn, content |-> content]
    /\ returned = Null
    /\ coreFields = {}
    /\ vendorFile \in { f \in VendorFiles : ~f.exists }
    /\ vendorFields = {}
    /\ includeTests = FALSE
    /\ NoAnalysis
    /\ NoBraceScan
    /\ NoFetching

\* extractFromMappingDefinition(obj, fields) on an empty Set: Array.from(fields)
CallExtractFromMappingDefinition ==
    /\ pc = "call"
    /\ args.fn = "extractFromMappingDefinition"
    /\ returned' = addAll(<<>>, extractFromMappingDefinition(args.obj, <<>>))
    /\ pc' = "return"
    /\ UNCHANGED <<coreFields, vendorFields, vendorFile, includeTests, args,
                   analysis, braceScan, fetching>>

\* extractFieldsFromMappingObject(obj, fields) on an empty Set
CallExtractFieldsFromMappingObject ==
    /\ pc = "call"
    /\ args.fn = "extractFieldsFromMappingObject"
    /\ returned' = addAll(<<>>, extractFieldsFromMappingObject(args.obj, <<>>))
    /\ pc' = "return"
    /\ UNCHANGED <<coreFields, vendorFields, vendorFile, includeTests, args,
                   analysis, braceScan, fetching>>

\* esClientParser.extractESClientFields(content, filePath)
CallExtractESClientFields ==
    /\ pc = "call"
    /\ args.fn = "extractESClientFields"
    /\ returned' = extractESClientFields(args.content)
    /\ pc' = "return"
    /\ UNCHANGED <<coreFields, vendorFields, vendorFile, includeTests, args,
                   analysis, braceScan, fetching>>

\* extractFromJSON(content, fields) on an empty Set: Array.from(fields)
CallExtractFromJSON ==
    /\ pc = "call"
    /\ args.fn = "extractFromJSON"
    /\ returned' = addAll(<<>>, extractFromJSON(args.content))
    /\ pc' = "return"
    /\ UNCHANGED <<coreFields, vendorFields, vendorFile, includeTests, args,
                   analysis, braceScan, fetching>>

NextMappings ==
    \/ CallExtractFromMappingDefinition
    \/ CallExtractFieldsFromMappingObject
    \/ CallExtractESClientFields
    \/ CallExtractFromJSON

SpecMappings == InitMappings /\ [][NextMappings]_vars

---------------------------------------------------------------------------
(* ESClientParser.extractFieldsFromTypescriptInterfaces, one step of its   *)
(* loops at a time.  Here a content is a sequence of these lexemes, and    *)
(* an index of the content is the number of lexemes before it:             *)
(*   "interface"   interface Text {         the start of a declaration     *)
(*   "open"        {                        an opening brace               *)
(*   "close"       }                        a closing brace                *)
(*   "quotedKey"   'text': type;            a quoted member                *)
(*   "key"         text: type;              a member at the start of a line*)

MaxTokens == 5

TokenPool ==
    { Lexeme("interface", <<"LogEntry">>),
      Lexeme("open", <<>>),
      Lexeme("close", <<>>),
      Lexeme("quotedKey", <<"user", ".", "name">>),
      Lexeme("key", <<"host", ".", "ip">>) }

InterfaceContents ==
    UNION { [1..n -> TokenPool] : n \in 0..MaxTokens }

\* content[endIndex] === '{'
opensBrace(lexeme) == lexeme.syntax \in {"interface", "open"}

\* content[endIndex] === '}'
closesBrace(lexeme) == lexeme.syntax = "close"

\* while (endIndex < content.length && braceCount > 0), without the test of
\* the depth
scanning_toEnd(content, index, depth) == index < Len(content)

\* while (endIndex < content.length && braceCount > 0)
scanning(content, index, depth) == index < Len(content) /\ depth > 0

\* if (content[endIndex] === '{') braceCount++;
\* else if (content[endIndex] === '}') braceCount--;
braceStep(lexeme, depth) ==
    IF opensBrace(lexeme) THEN depth + 1
    ELSE IF closesBrace(lexeme) THEN depth - 1
    ELSE depth

\* interfaceStartPattern.exec(content) with lastIndex: match.index of the
\* first declaration start at or after lastIndex, -1 for null
interfaceStartPattern(content, lastIndex) ==
    LET starts == { i \in lastIndex..(Len(content) - 1) :
                      content[i + 1].syntax = "interface" }
    IN  IF starts = {} THEN -1
        ELSE CHOOSE i \in starts : \A j \in starts : i <= j

\* the matches of quotedFieldPattern, then those of unquotedFieldPattern, in
\* interfaceBody, each kept if this.isValidFieldName
interfaceFields(interfaceBody) ==
    SelectSeq(SelectSeq(quotedOf(interfaceBody, "quotedKey"), ecsNameFormat),
              isValidESFieldName)
    \o SelectSeq(SelectSeq(quotedOf(interfaceBody, "key"), dottedNameFormat),
                 isValidESFieldName)

\* content.substring(from, to)
substring(content, from, to) == SubSeq(content, from + 1, to)

InitInterfaces ==
    /\ pc = "call"
    /\ \E content \in InterfaceContents :
          args = [fn |-> "extractFieldsFromTypescriptInterfaces",
                  content |-> content]
    /\ returned = <<>>
    /\ coreFields = {}
    /\ vendorFile \in { f \in VendorFiles : ~f.exists }
    /\ vendorFields = {}
    /\ includeTests = FALSE
    /\ NoAnalysis
    /\ NoBraceScan
    /\ NoFetching

\* while ((match = interfaceStartPattern.exec(content)) !== null): the search
\* resumes at the end of the last match, which is startIndex; on a match
\* startIndex = match.index + match[0].length; braceCount = 1;
\* endIndex = startIndex
ExecInterfaceStart ==
    /\ pc = "call"
    /\ args.fn = "extractFieldsFromTypescriptInterfaces"
    /\ LET index == interfaceStartPattern(args.content, startIndex)
       IN  IF index = -1
           THEN /\ pc' = "return"
                /\ UNCHANGED braceScan
           ELSE /\ startIndex' = index + 1
                /\ braceCount' = 1
                /\ endIndex' = index + 1
                /\ pc' = "scan"
    /\ UNCHANGED <<coreFields, vendorFields, vendorFile, includeTests, args,
                   returned, analysis, fetching>>

\* one turn of the inner while loop
ScanBrace ==
    /\ pc = "scan"
    /\ scanning(args.content, endIndex, braceCount)
    /\ braceCount' = braceStep(args.content[endIndex + 1], braceCount)
    /\ endIndex' = endIndex + 1
    /\ UNCHANGED <<pc, coreFields, vendorFields, vendorFile, includeTests, args,
                   returned, startIndex, analysis, fetching>>

\* the inner loop is left: if (braceCount === 0) the fields of
\* content.substring(startIndex, endIndex - 1) are added to the Set
MatchInterfaceBody ==
    /\ pc = "scan"
    /\ ~scanning(args.content, endIndex, braceCount)
    /\ returned' =
          IF braceCount = 0
          THEN addAll(returned,
                      interfaceFields(substring(args.content, startIndex,
                                                endIndex - 1)))
          ELSE returned
    /\ pc' = "call"
    /\ UNCHANGED <<coreFields, vendorFields, vendorFile, includeTests, args,
                   analysis, braceScan, fetching>>

NextInterfaces == ExecInterfaceStart \/ ScanBrace \/ MatchInterfaceBody

\* the loops are synchronous code: a step that can be taken is taken
SpecInterfaces ==
    InitInterfaces /\ [][NextInterfaces]_vars /\ WF_vars(NextInterfaces)

---------------------------------------------------------------------------
(* ECSFetcher.fetchECSFields and downloadIfMissing, called directly and as *)
(* step 1 of analyze().  The file system does what it is asked and only    *)
(* the fetcher touches the reference file; the server's answer to a        *)
(* request is part of the input.                                           *)

\* the text of a reference file or of a response: a header and up to one row
FetchedCsv ==
    { csvOf(h, r) : h \in Headers, r \in UNION { [1..k -> CsvValues] : k \in 0..1 } }

\* a file at the path, not written by the fetcher
LocalFile(content) == [exists |-> TRUE, content |-> content, writes |-> 0]

\* what fetch(this.ecsFieldsUrl) gives: a response that is ok, a response
\* that is not, or a rejection
Responses ==
    { [kind |-> "ok", text |-> c] : c \in FetchedCsv }
    \cup { [kind |-> k, text |-> MissingFile.content] : k \in {"not_ok", "rejected"} }

\* the outcome of a call of the fetcher: the file after it, the requests it
\* made, what it returned and the error it threw ("none" if it returned)
Outcome(file, made, value, error) ==
    [file |-> file, requests |-> made, returned |-> value, thrown |-> error]

\* fs.writeFile(fieldsPath, csvContent, 'utf8')
writeFile(file, csvContent) ==
    [exists |-> TRUE, content |-> csvContent, writes |-> file.writes + 1]

\* fetchECSFields without the fs.pathExists branch
fetchECSFields_alwaysDownload(file, response) ==
    IF response.kind # "ok"
    THEN Outcome(file, 1, MissingFile.content, "Failed to fetch ECS fields")
    ELSE Outcome(writeFile(file, response.text), 1, response.text, "none")

\* fetchECSFields(fieldsPath) with the file at fieldsPath and the response a
\* request would get
fetchECSFields(file, response) ==
    IF file.exists
    THEN Outcome(file, 0, file.content, "none")
    ELSE IF response.kind # "ok"
         THEN Outcome(file, 1, MissingFile.content, "Failed to fetch ECS fields")
         ELSE Outcome(writeFile(file, response.text), 1, response.text, "none")

\* downloadIfMissing(fieldsPath): returns nothing
downloadIfMissing(file, response) ==
    IF ~file.exists
    THEN [fetchECSFields(file, response) EXCEPT !.returned = MissingFile.content]
    ELSE Outcome(file, 0, MissingFile.content, "none")

InitFetch ==
    /\ \/ /\ pc = "call"
          /\ \E response \in Responses :
                args = [fn |-> "fetchECSFields", response |-> response]
       \/ /\ pc = "start"
          /\ \E response \in Responses :
                args = [fn |-> "analyze", response |-> response]
    /\ fieldsCSV \in {MissingFile} \cup { LocalFile(c) : c \in FetchedCsv }
    /\ requests = 0
    /\ returned = MissingFile.content
    /\ coreFields = {}
    /\ vendorFile \in { f \in VendorFiles : ~f.exists }
    /\ vendorFields = {}
    /\ includeTests = FALSE
    /\ NoAnalysis
    /\ NoBraceScan

\* the outcome of a call is taken over into the state
Fetched(outcome, next) ==
    /\ fieldsCSV' = outcome.file
    /\ requests' = requests + outcome.requests
    /\ returned' = outcome.returned
    /\ thrown' = outcome.thrown
    /\ pc' = IF outcome.thrown = "none" THEN next ELSE "failed"
    /\ UNCHANGED <<coreFields, vendorFields, vendorFile, includeTests, args,
                   filePaths, progress, stats, extractedFields,
                   coreFieldsInFile, vendorFieldsInFile, customFieldsInFile,
                   normalized, braceScan>>

\* fetcher.fetchECSFields(fieldsPath)
CallFetchECSFields ==
    /\ pc = "call"
    /\ args.fn = "fetchECSFields"
    /\ Fetched(fetchECSFields(fieldsCSV, args.response), "return")

\* analyze(): await this.fetcher.downloadIfMissing(this.fieldsCSV)
AnalyzeDownloadIfMissing ==
    /\ pc = "start"
    /\ args.fn = "analyze"
    /\ Fetched(downloadIfMissing(fieldsCSV, args.response), "downloaded")

\* analyze(): const csvContent = await this.fetcher.fetchECSFields(this.fieldsCSV)
AnalyzeFetchECSFields ==
    /\ pc = "downloaded"
    /\ Fetched(fetchECSFields(fieldsCSV, args.response), "fetched")

NextFetch == CallFetchECSFields \/ AnalyzeDownloadIfMissing \/ AnalyzeFetchECSFields

SpecFetch == InitFetch /\ [][NextFetch]_vars

---------------------------------------------------------------------------
(* ECSAnalyzer.updateFileStatistics, updateFieldCounts, analyzeFile *)

\* map.set(key, (map.get(key) || 0) + 1)
increment(map, key) ==
    IF key \in DOMAIN map THEN [map EXCEPT ![key] = @ + 1]
    ELSE [k \in DOMAIN map \cup {key} |-> IF k = key THEN 1 ELSE map[k]]

RECURSIVE countAll(_, _)
\* for (const field of list) increment the field's count
countAll(map, list) ==
    IF Len(list) = 0 THEN map
    ELSE countAll(increment(map, list[1]), Tail(list))

\* updateFileStatistics reading the counter of the earlier files into
\* hasVendor
updateFileStatistics_stale(st, lists) ==
    LET hasCore   == Len(lists.core) > 0
        hasVendor == Len(lists.vendor) > 0 \/ st.filesWithVendorFields > 0
        hasCustom == Len(lists.custom) > 0
    IN  [st EXCEPT
            !.filesWithOnlyCoreFields =
                IF hasCore /\ ~hasVendor /\ ~hasCustom THEN @ + 1 ELSE @,
            !.filesWithVendorFields = IF hasVendor THEN @ + 1 ELSE @,
            !.filesWithCustomFields = IF hasCustom THEN @ + 1 ELSE @]

updateFileStatistics(st, lists) ==
    LET hasCore   == Len(lists.core) > 0
        hasVendor == Len(lists.vendor) > 0
        hasCustom == Len(lists.custom) > 0
    IN  [st EXCEPT
            !.filesWithOnlyCoreFields =
                IF hasCore /\ ~hasVendor /\ ~hasCustom THEN @ + 1 ELSE @,
            !.filesWithVendorFields = IF hasVendor THEN @ + 1 ELSE @,
            !.filesWithCustomFields = IF hasCustom THEN @ + 1 ELSE @]

\* updateFieldCounts counting the vendor fields under the custom fields too
updateFieldCounts_vendorAsCustom(st, lists) ==
    [st EXCEPT !.coreFieldCounts   = countAll(@, lists.core),
               !.vendorFieldCounts = countAll(@, lists.vendor),
               !.customFieldCounts = countAll(@, lists.vendor \o lists.custom)]

updateFieldCounts(st, lists) ==
    [st EXCEPT !.coreFieldCounts   = countAll(@, lists.core),
               !.vendorFieldCounts = countAll(@, lists.vendor),
               !.customFieldCounts = countAll(@, lists.custom)]

\* the path analyzeFile takes for a file
analyzePath(file) ==
    IF file.throwsIn = "shouldSkipFile" THEN "error"
    ELSE IF shouldSkipFile(file) THEN "skipped"
    ELSE IF file.throwsIn = "readFileContent" THEN "error"
    ELSE IF noContent(file) THEN "no_content"
    ELSE IF file.throwsIn = "extractFieldsFromContent" THEN "error"
    ELSE IF Len(extractFieldsFromContent(file)) = 0 THEN "no_fields"
    ELSE IF file.throwsIn = "categorizeFields" THEN "error"
    ELSE "classified"

\* the push to skippedFilesList without this.stats.skippedFiles++
skipFile_listOnly(st, file, reason) ==
    [st EXCEPT !.skippedFilesList = Append(@, [path |-> file.path, reason |-> reason])]

\* this.stats.skippedFiles++; this.stats.skippedFilesList.push({path, reason})
skipFile(st, file, reason) ==
    [st EXCEPT !.skippedFiles = @ + 1,
               !.skippedFilesList = Append(@, [path |-> file.path, reason |-> reason])]

\* the file type is counted once shouldSkipFile has returned false
trackFileType(st, file) ==
    IF file.throwsIn = "shouldSkipFile" \/ shouldSkipFile(file) THEN st
    ELSE [st EXCEPT !.fileTypeCounts = increment(@, getFileType(file))]

\* the three lists categorizeFields returns in analyzeFile, when it is reached
listsOf(file, coreFieldsSet, vendorFieldsSet) ==
    IF analyzePath(file) = "classified"
    THEN categorizeFields(extractFieldsFromContent(file), coreFieldsSet, vendorFieldsSet)
    ELSE noLists

\* this.stats after analyzeFile(filePath, coreFields, vendorFields)
analyzeFile(st, file, coreFieldsSet, vendorFieldsSet) ==
    LET path  == analyzePath(file)
        typed == trackFileType(st, file)
        lists == listsOf(file, coreFieldsSet, vendorFieldsSet)
    IN  CASE path = "skipped" ->
               skipFile(st, file, "File type not supported or excluded by patterns")
          [] path = "no_content" ->
               skipFile(typed, file, "Empty file or failed to read content")
          [] path = "no_fields" ->
               [typed EXCEPT !.processedFiles = @ + 1]
          [] path = "classified" ->
               [updateFieldCounts(updateFileStatistics(typed, lists), lists)
                   EXCEPT !.processedFiles = @ + 1]
          [] path = "error" ->
               [typed EXCEPT !.skippedFiles = @ + 1]

---------------------------------------------------------------------------
(* FileScanner.scanDirectory on a directory tree, with the default file    *)
(* types (includeJson, includeYaml and includeMarkdown are off).           *)

\* a JavaScript file of the tree with a quoted 'user.name' in it
SourceFile(path, segments, ext) ==
    [path |-> path, segments |-> segments, ext |-> ext, statFails |-> FALSE,
     content |-> "text", hits |-> <<user_name>>, throwAfter |-> -1,
     throwsIn |-> "none"]

\* the files under the repository path, in the order of their paths
ScanCatalog ==
    << SourceFile("/repo/node_modules/g.js",
                  <<"/", "repo", "/", "node_modules", "/", "g", DOT, "js">>, ".js"),
       SourceFile("/repo/src/B.Spec.ts",
                  <<"/", "repo", "/", "src", "/", "B", DOT, "Spec", DOT, "ts">>, ".ts"),
       SourceFile("/repo/src/Tests/d.tsx",
                  <<"/", "repo", "/", "src", "/", "Tests", "/", "d", DOT, "tsx">>, ".tsx"),
       SourceFile("/repo/src/__tests__/c.js",
                  <<"/", "repo", "/", "src", "/", "__tests__", "/", "c", DOT, "js">>, ".js"),
       SourceFile("/repo/src/a.js",
                  <<"/", "repo", "/", "src", "/", "a", DOT, "js">>, ".js"),
       SourceFile("/repo/src/a.test.js",
                  <<"/", "repo", "/", "src", "/", "a", DOT, "test", DOT, "js">>, ".js"),
       SourceFile("/repo/src/h.js.map",
                  <<"/", "repo", "/", "src", "/", "h", DOT, "js", DOT, "map">>, ".map"),
       SourceFile("/repo/src/i.json",
                  <<"/", "repo", "/", "src", "/", "i", DOT, "json">>, ".json"),
       SourceFile("/repo/src/latest/f.js",
                  <<"/", "repo", "/", "src", "/", "latest", "/", "f", DOT, "js">>, ".js"),
       SourceFile("/repo/test/e.js",
                  <<"/", "repo", "/", "test", "/", "e", DOT, "js">>, ".js") >>

\* buildIncludePatterns: '**/*.js', '**/*.ts', '**/*.tsx', '**/*.jsx'
includePatterns == {"js", "ts", "tsx", "jsx"}

\* the path is in a directory of one of the names: '**/name/**'
inDirectory(filePath, names) ==
    \E i \in 1..(Len(filePath) - 2) :
        filePath[i] = "/" /\ filePath[i + 1] \in names /\ filePath[i + 2] = "/"

\* the file name has .word. in it for a word of the set: '**/*.word.*'
hasInfix(filePath, words) ==
    \E i \in 1..(Len(filePath) - 2) :
        /\ filePath[i] = DOT /\ filePath[i + 1] \in words /\ filePath[i + 2] = DOT
        /\ \A k \in i..Len(filePath) : filePath[k] # "/"

\* the file name ends with the symbols: '**/*.min.js' and the like
hasSuffix(filePath, suffix) == EndsWith(filePath, suffix)

baseExcludePatterns(filePath) ==
    \/ inDirectory(filePath, {"node_modules", "dist", "build", "coverage",
                              ".git", "target", "docs"})
    \/ hasSuffix(filePath, <<DOT, "min", DOT, "js">>)
    \/ hasSuffix(filePath, <<DOT, "bundle", DOT, "js">>)
    \/ hasSuffix(filePath, <<DOT, "map">>)

\* the patterns match the case of the path as it is
testExcludePatterns(filePath) ==
    \/ inDirectory(filePath, {"test", "tests", "__tests__"})
    \/ hasInfix(filePath, {"test", "spec"})

excludePatterns(filePath) ==
    IF includeTests THEN baseExcludePatterns(filePath)
    ELSE baseExcludePatterns(filePath) \/ testExcludePatterns(filePath)

\* glob(pattern, {ignore: this.excludePatterns}) finds the file for one of
\* the search patterns
globbed(filePath) ==
    /\ \E ext \in includePatterns : hasSuffix(filePath, <<DOT, ext>>)
    /\ ~excludePatterns(filePath)

RECURSIVE sorted(_)
\* [...new Set(allFiles)].sort(): the files of the set in the order of
\* their paths
sorted(files) ==
    IF files = {} THEN <<>>
    ELSE <<Min(files)>> \o sorted(files \ {Min(files)})

\* scanDirectory returning what glob found
scanDirectory_globOnly(tree) ==
    sorted({ i \in tree : globbed(ScanCatalog[i].segments) })

\* the files of the tree scanDirectory returns
scanDirectory(tree) ==
    sorted({ i \in tree :
               /\ globbed(ScanCatalog[i].segments)
               /\ includeTests \/ ~isTestFile(ScanCatalog[i].segments) })

---------------------------------------------------------------------------
(* The scanner and analyzeFile on their own: scanDirectory on a tree,      *)
(* shouldSkipFile and analyzeFile on one file                              *)

InitScan ==
    /\ pc = "call"
    /\ includeTests \in BOOLEAN
    /\ \/ \E tree \in SUBSET (DOMAIN ScanCatalog) :
             args = [fn |-> "scanDirectory", tree |-> tree]
       \/ \E fn \in {"shouldSkipFile", "analyzeFile"}, i \in DOMAIN ScanCatalog :
             args = [fn |-> fn, file |-> ScanCatalog[i]]
    /\ returned = Null
    /\ coreFields = {user_name}
    /\ vendorFile \in { f \in VendorFiles : ~f.exists }
    /\ vendorFields = {}
    /\ NoAnalysis
    /\ NoBraceScan
    /\ NoFetching

CallScanDirectory ==
    /\ pc = "call"
    /\ args.fn = "scanDirectory"
    /\ returned' = scanDirectory(args.tree)
    /\ pc' = "return"
    /\ UNCHANGED <<coreFields, vendorFields, vendorFile, includeTests, args,
                   analysis, braceScan, fetching>>

CallShouldSkipFile ==
    /\ pc = "call"
    /\ args.fn = "shouldSkipFile"
    /\ returned' = shouldSkipFile(args.file)
    /\ pc' = "return"
    /\ UNCHANGED <<coreFields, vendorFields, vendorFile, includeTests, args,
                   analysis, braceScan, fetching>>

CallAnalyzeFile ==
    /\ pc = "call"
    /\ args.fn = "analyzeFile"
    /\ stats' = analyzeFile(stats, args.file, coreFields, vendorFields)
    /\ extractedFields' =
           IF analyzePath(args.file) \in {"no_fields", "classified"}
           THEN extractFieldsFromContent(args.file) ELSE <<>>
    /\ coreFieldsInFile' = listsOf(args.file, coreFields, vendorFields).core
    /\ vendorFieldsInFile' = listsOf(args.file, coreFields, vendorFields).vendor
    /\ customFieldsInFile' = listsOf(args.file, coreFields, vendorFields).custom
    /\ pc' = "return"
    /\ UNCHANGED <<coreFields, vendorFields, vendorFile, includeTests, args,
                   returned, filePaths, progress, normalized, thrown,
                   braceScan, fetching>>

NextScan == CallScanDirectory \/ CallShouldSkipFile \/ CallAnalyzeFile

SpecScan == InitScan /\ [][NextScan]_vars

---------------------------------------------------------------------------
(* ECSAnalyzer.analyze *)

Init ==
    /\ pc = "start"
    /\ coreFields = {}
    /\ vendorFields = {}
    /\ filePaths = <<>>
    /\ progress = 0
    /\ stats = initialStats
    /\ extractedFields = <<>>
    /\ coreFieldsInFile = <<>>
    /\ vendorFieldsInFile = <<>>
    /\ customFieldsInFile = <<>>
    /\ normalized = Null
    /\ thrown = "none"
    /\ vendorFile \in VendorFiles
    /\ includeTests \in BOOLEAN
    /\ args = noArgs
    /\ returned = Null
    /\ NoBraceScan
    /\ NoFetching

\* the catch of analyze(): the error is logged and thrown again
Fail(error) ==
    /\ pc' = "failed"
    /\ thrown' = error

\* afterParse without the size check
afterParse_noCheck(coreFieldsSet) == "vendor"

\* the statement after parseECSFields: an empty set is an error
afterParse(coreFieldsSet) ==
    IF coreFieldsSet = {} THEN "failed" ELSE "vendor"

\* Step 1: downloadIfMissing or fetchECSFields throws
FetchFails ==
    /\ pc = "start"
    /\ Fail("Failed to fetch ECS fields")
    /\ UNCHANGED <<coreFields, vendorFields, filePaths, progress, stats,
                   extractedFields, coreFieldsInFile, vendorFieldsInFile,
                   customFieldsInFile, normalized,
                   vendorFile, includeTests, args, returned,
                   braceScan, fetching>>

\* Step 1: csv-parse throws on the content
ParseFails ==
    /\ pc = "start"
    /\ Fail("Failed to parse ECS fields CSV")
    /\ UNCHANGED <<coreFields, vendorFields, filePaths, progress, stats,
                   extractedFields, coreFieldsInFile, vendorFieldsInFile,
                   customFieldsInFile, normalized,
                   vendorFile, includeTests, args, returned,
                   braceScan, fetching>>

\* Step 1: the CSV is fetched and parsed
LoadSchema ==
    /\ pc = "start"
    /\ \E csv \in CsvInputs :
          /\ coreFields' = parseECSFields(csv)
          /\ pc' = afterParse(parseECSFields(csv))
          /\ thrown' = IF afterParse(parseECSFields(csv)) = "failed"
                       THEN "No core ECS fields found in CSV file" ELSE "none"
    /\ UNCHANGED <<vendorFields, filePaths, progress, stats, extractedFields,
                   coreFieldsInFile, vendorFieldsInFile, customFieldsInFile,
                   normalized,
                   vendorFile, includeTests, args, returned,
                   braceScan, fetching>>

\* Step 1.5: loadVendorFields never throws
LoadVendor ==
    /\ pc = "vendor"
    /\ vendorFields' = loadVendorFields(vendorFile)
    /\ pc' = "scan"
    /\ UNCHANGED <<coreFields, filePaths, progress, stats, extractedFields,
                   coreFieldsInFile, vendorFieldsInFile, customFieldsInFile,
                   normalized, thrown,
                   vendorFile, includeTests, args, returned,
                   braceScan, fetching>>

\* Step 2: scanDirectory throws
ScanFails ==
    /\ pc = "scan"
    /\ Fail("Failed to scan directory")
    /\ UNCHANGED <<coreFields, vendorFields, filePaths, progress, stats,
                   extractedFields, coreFieldsInFile, vendorFieldsInFile,
                   customFieldsInFile, normalized,
                   vendorFile, includeTests, args, returned,
                   braceScan, fetching>>

\* Step 2: scanDirectory returns the files
Scan ==
    /\ pc = "scan"
    /\ filePaths' \in FileLists
    /\ stats' = [stats EXCEPT !.totalFiles = Len(filePaths')]
    /\ pc' = "files"
    /\ UNCHANGED <<coreFields, vendorFields, progress, extractedFields,
                   coreFieldsInFile, vendorFieldsInFile, customFieldsInFile,
                   normalized, thrown,
                   vendorFile, includeTests, args, returned,
                   braceScan, fetching>>

\* AnalyzeNext adding the custom names of the file to the vendor patterns
AnalyzeNext_learnsPatterns(path) ==
    /\ progress < Len(filePaths)
    /\ LET file  == FileCatalog[filePaths[progress + 1]]
           lists == listsOf(file, coreFields, vendorFields)
       IN  /\ analyzePath(file) = path
           /\ stats' = analyzeFile(stats, file, coreFields, vendorFields)
           /\ extractedFields' =
                  IF path \in {"no_fields", "classified"}
                     \/ (path = "error" /\ file.throwsIn = "categorizeFields")
                  THEN extractFieldsFromContent(file) ELSE <<>>
           /\ coreFieldsInFile' = lists.core
           /\ vendorFieldsInFile' = lists.vendor
           /\ customFieldsInFile' = lists.custom
           /\ vendorFields' =
                  vendorFields \cup {lists.custom[i] : i \in DOMAIN lists.custom}
    /\ progress' = progress + 1
    /\ UNCHANGED <<pc, coreFields, filePaths, normalized, thrown,
                   vendorFile, includeTests, args, returned,
                   braceScan, fetching>>

\* Step 3, one turn of the loop on a file that takes the given path
AnalyzeNext(path) ==
    /\ progress < Len(filePaths)
    /\ LET file  == FileCatalog[filePaths[progress + 1]]
           lists == listsOf(file, coreFields, vendorFields)
       IN  /\ analyzePath(file) = path
           /\ stats' = analyzeFile(stats, file, coreFields, vendorFields)
           /\ extractedFields' =
                  IF path \in {"no_fields", "classified"}
                     \/ (path = "error" /\ file.throwsIn = "categorizeFields")
                  THEN extractFieldsFromContent(file) ELSE <<>>
           /\ coreFieldsInFile' = lists.core
           /\ vendorFieldsInFile' = lists.vendor
           /\ customFieldsInFile' = lists.custom
    /\ progress' = progress + 1
    /\ UNCHANGED <<pc, coreFields, vendorFields, filePaths, normalized, thrown,
                   vendorFile, includeTests, args, returned,
                   braceScan, fetching>>

\* shouldSkipFile(filePath) is true
AnalyzeSkipped ==
    /\ pc = "files"
    /\ AnalyzeNext("skipped")

\* the content is empty or could not be read
AnalyzeNoContent ==
    /\ pc = "files"
    /\ AnalyzeNext("no_content")

\* extractedFields.length === 0
AnalyzeNoFields ==
    /\ pc = "files"
    /\ AnalyzeNext("no_fields")

\* the candidates are categorized and counted
AnalyzeClassified ==
    /\ pc = "files"
    /\ AnalyzeNext("classified")

\* the catch of analyzeFile
AnalyzeError ==
    /\ pc = "files"
    /\ AnalyzeNext("error")

\* Step 4: generateResults and return
Finish ==
    /\ pc = "files"
    /\ progress = Len(filePaths)
    /\ pc' = "done"
    /\ UNCHANGED <<coreFields, vendorFields, filePaths, progress, stats,
                   extractedFields, coreFieldsInFile, vendorFieldsInFile,
                   customFieldsInFile, normalized, thrown,
                   vendorFile, includeTests, args, returned,
                   braceScan, fetching>>

Next ==
    \/ FetchFails
    \/ ParseFails
    \/ LoadSchema
    \/ LoadVendor
    \/ ScanFails
    \/ Scan
    \/ AnalyzeSkipped
    \/ AnalyzeNoContent
    \/ AnalyzeNoFields
    \/ AnalyzeClassified
    \/ AnalyzeError
    \/ Finish

Spec == Init /\ [][Next]_vars

---------------------------------------------------------------------------
(* Properties of the classification (checked under SpecClassify) *)

\* the elements of a list
Range(list) == {list[i] : i \in DOMAIN list}

\* the number of places of a list that hold x
Occurrences(list, x) == Cardinality({i \in DOMAIN list : list[i] = x})

\* C1: categorizeFields is total and partitions its input: every candidate
\* of the list is in exactly one of coreFieldsInFile, vendorFieldsInFile and
\* customFieldsInFile, under its original string, and the three lists hold
\* nothing but the candidates of the input.
C1_Partition ==
    pc = "categorized" =>
        /\ \A x \in Range(extractedFields) :
              Occurrences(coreFieldsInFile, x) + Occurrences(vendorFieldsInFile, x)
                  + Occurrences(customFieldsInFile, x)
              = Occurrences(extractedFields, x)
        /\ Range(coreFieldsInFile) \cup Range(vendorFieldsInFile)
               \cup Range(customFieldsInFile) = Range(extractedFields)
        /\ Len(coreFieldsInFile) + Len(vendorFieldsInFile) + Len(customFieldsInFile)
               = Len(extractedFields)

\* a list of two candidates has been split: kibana.alert.user.name is core
\* under its own name (its normalized name is user.name) and the other
\* candidate is not core
C1_Witness ==
    /\ pc = "categorized"
    /\ Len(extractedFields) = 2
    /\ coreFieldsInFile = <<kibana_alert_user_name>>
    /\ Len(vendorFieldsInFile) + Len(customFieldsInFile) = 1

\* the five rules of the decision order, as the claim lists them
Rule1(field) ==
    field \in coreFields \/ \E f \in coreFields : StartsWith(field, f \o <<DOT>>)
Rule2(field) == normalizeFieldName(field, coreFields) \in coreFields
Rule3(field) == StartsWith(field, <<"kibana", DOT>>)
Rule4(field) == isVendorField(field, vendorFields)

\* the list of the result that holds the field
ListOf(field) ==
    { c \in {"core", "vendor", "custom"} :
        field \in Range(CASE c = "core" -> coreFieldsInFile
                          [] c = "vendor" -> vendorFieldsInFile
                          [] c = "custom" -> customFieldsInFile) }

\* C2: the category of a candidate is that of the first rule that matches,
\* in the order: schema member or sub-field of one => core; normalizes to a
\* schema member => core; begins with kibana. => vendor; matches a vendor
\* pattern => vendor; otherwise custom.  A candidate that is core by rule 1
\* or 2 is core also when a vendor pattern matches it.
C2_DecisionOrder ==
    pc = "categorized" =>
        \A field \in Range(extractedFields) :
            ListOf(field) =
                IF Rule1(field) THEN {"core"}
                ELSE IF Rule2(field) THEN {"core"}
                ELSE IF Rule3(field) THEN {"vendor"}
                ELSE IF Rule4(field) THEN {"vendor"}
                ELSE {"custom"}

\* a candidate that rule 1 makes core although a vendor pattern matches it
C2_Witness ==
    /\ pc = "categorized"
    /\ extractedFields = <<user_name>>
    /\ Rule4(user_name)
    /\ coreFieldsInFile = <<user_name>>

\* C3: schema-prefix law: a candidate f.s with f in the schema is core
\* (isECSField is true for it), as user.name.keyword is with the schema
\* {user.name, host.ip}; a candidate that is no schema member and has no
\* schema member followed by a dot as a prefix, as custom.field.keyword, is
\* not core by this rule (isECSField is false for it).
C3_SchemaPrefixLaw ==
    /\ isECSField(Name(<<"user", "name", "keyword">>), {user_name, host_ip})
    /\ ~isECSField(Name(<<"custom", "field", "keyword">>), {user_name, host_ip})
    /\ pc = "categorized" =>
          \A field \in Range(extractedFields) :
              /\ (\E f \in coreFields : StartsWith(field, f \o <<DOT>>))
                    => /\ isECSField(field, coreFields)
                       /\ field \in Range(coreFieldsInFile)
              /\ (/\ field \notin coreFields
                  /\ \A f \in coreFields : ~StartsWith(field, f \o <<DOT>>))
                    => ~isECSField(field, coreFields)

\* user.name.keyword has been classified core with the schema holding
\* user.name and an empty vendor set
C3_Witness ==
    /\ pc = "categorized"
    /\ vendorFields = {}
    /\ user_name \in coreFields
    /\ extractedFields = <<Name(<<"user", "name", "keyword">>)>>
    /\ coreFieldsInFile = extractedFields

\* C4 as the claim states it: every candidate that begins with kibana. is
\* classified vendor, whatever the schema and the vendor set
C4_KibanaAlwaysVendor ==
    pc = "categorized" =>
        \A field \in Range(extractedFields) :
            Rule3(field) => field \in Range(vendorFieldsInFile)

\* C4, amended: a candidate that begins with kibana. is never custom, for
\* any schema and any vendor set (the empty one too); it is vendor unless
\* rule 1 or rule 2 makes it core; kibana.space.id is vendor for every
\* schema that has neither it nor a prefix of it that ends before a dot.
C4_KibanaNeverCustom ==
    pc = "categorized" =>
        \A field \in Range(extractedFields) :
            Rule3(field) =>
                /\ field \notin Range(customFieldsInFile)
                /\ field \in Range(vendorFieldsInFile)
                      <=> ~(Rule1(field) \/ Rule2(field))
                /\ (field = kibana_space_id /\ ~Rule1(field))
                      => field \in Range(vendorFieldsInFile)

\* kibana.space.id has been classified vendor with an empty vendor set
C4_Witness ==
    /\ pc = "categorized"
    /\ vendorFields = {}
    /\ extractedFields = <<kibana_space_id>>
    /\ vendorFieldsInFile = <<kibana_space_id>>

\* C5: for every schema that has f, the candidate kibana.alert.f is core,
\* and normalizeFieldName gives f for it.
C5_AlertPrefixCore ==
    /\ pc = "categorized" =>
          \A field \in Range(extractedFields) : \A f \in coreFields :
              field = kibanaAlertPrefix \o f => field \in Range(coreFieldsInFile)
    /\ pc = "normalized" =>
          \A f \in coreFields :
              extractedFields[1] = kibanaAlertPrefix \o f => normalized = f

\* kibana.alert.user.name has been classified core by the schema {user.name}
C5_Witness ==
    /\ pc = "categorized"
    /\ coreFields = {user_name}
    /\ extractedFields = <<kibana_alert_user_name>>
    /\ coreFieldsInFile = <<kibana_alert_user_name>>

\* the names obtained by prepending the common namespaces, in their order
Namespaced(rest) ==
    [i \in DOMAIN commonNamespaces |-> Dotted(<<commonNamespaces[i]>>, rest)]

\* the outputs of the eight rules the claim lists, for a field name, in the
\* order of the list; a rule that does not apply gives no output
ListedRuleOutputs(fieldName) ==
    LET w == withoutAlertPrefix(fieldName)
        One(x) == IF x = Null THEN <<>> ELSE <<x>>
        WithNamespaces(x) == IF x = Null THEN <<>> ELSE <<x>> \o Namespaced(x)
    IN  (IF StartsWith(fieldName, kibanaAlertPrefix)
         THEN <<w>> \o One(originalEventField(w)) \o Namespaced(w)
                \o WithNamespaces(withoutRulePrefix(w))
                \o WithNamespaces(withoutParametersPrefix(w))
         ELSE <<>>)
        \o One(complexMapping(fieldName))
        \o One(metadataField(fieldName))
        \o One(nestedField(fieldName))

\* the outputs of all the rules of the source: the listed ones, then
\* <ns>.properties.<name> and the schema-attribute echo
RuleOutputs(fieldName) ==
    LET One(x) == IF x = Null THEN <<>> ELSE <<x>>
    IN  ListedRuleOutputs(fieldName)
        \o One(propertiesField(fieldName))
        \o One(schemaField(fieldName))

\* the first element of a list that the set has, or Null
FirstHit(outputs, set) ==
    LET hits == {i \in DOMAIN outputs : outputs[i] \in set}
    IN  IF hits = {} THEN Null ELSE outputs[Min(hits)]

\* C6: normalizeFieldName tries its rules in a fixed order (alert prefix
\* strip; original_event to event; the namespaces event, log, user, host,
\* process, source, destination; rule. strip, then the namespaces;
\* rule.parameters. strip, then the namespaces; mappings.properties
\* collapse; fields metadata; duplicate-namespace echo) and returns the
\* output of the first rule that is a schema member: when a listed rule
\* gives a schema member the result is the first such output of the list,
\* whatever the later rules give; in all cases the result is the first
\* schema member among the outputs of the rules in the order of the source.
C6_FirstRuleWins ==
    pc = "normalized" =>
        /\ FirstHit(ListedRuleOutputs(extractedFields[1]), coreFields) # Null
              => normalized = FirstHit(ListedRuleOutputs(extractedFields[1]), coreFields)
        /\ normalized = FirstHit(RuleOutputs(extractedFields[1]), coreFields)

\* two rules give a schema member and the earlier one is the result
C6_Witness ==
    /\ pc = "normalized"
    /\ Cardinality({i \in DOMAIN RuleOutputs(extractedFields[1]) :
                       RuleOutputs(extractedFields[1])[i] \in coreFields}) >= 2
    /\ Cardinality({RuleOutputs(extractedFields[1])[i] :
                       i \in DOMAIN RuleOutputs(extractedFields[1])}
                   \cap coreFields) = 2
    /\ normalized \in coreFields

\* C7: normalizeFieldName returns null or a member of the schema, never a
\* transformed name that the schema does not have.
C7_NullOrSchemaMember ==
    /\ pc = "normalized" => (normalized = Null \/ normalized \in coreFields)
    /\ pc = "categorized" =>
          \A field \in Range(extractedFields) :
              \/ normalizeFieldName(field, coreFields) = Null
              \/ normalizeFieldName(field, coreFields) \in coreFields

\* a rule has transformed the name into a schema member
C7_Witness ==
    /\ pc = "normalized"
    /\ normalized \in coreFields
    /\ normalized # extractedFields[1]
    /\ ~StartsWith(extractedFields[1], kibanaAlertPrefix)

---------------------------------------------------------------------------
(* Properties of a run of analyze() (checked under Spec) *)

\* the orders in which the files of a list can be processed
ProcessingOrders(list) ==
    { [i \in DOMAIN list |-> list[p[i]]] : p \in
        { q \in [DOMAIN list -> DOMAIN list] :
            \A i, j \in DOMAIN list : q[i] = q[j] => i = j } }

RECURSIVE analyzeAll(_, _, _, _)
\* this.stats after analyzeFile on each file of the list, in its order
analyzeAll(st, list, coreFieldsSet, vendorFieldsSet) ==
    IF Len(list) = 0 THEN st
    ELSE analyzeAll(analyzeFile(st, FileCatalog[list[1]], coreFieldsSet, vendorFieldsSet),
                    Tail(list), coreFieldsSet, vendorFieldsSet)

\* the per-name count maps and the three file counters
Counters(st) ==
    << st.coreFieldCounts, st.vendorFieldCounts, st.customFieldCounts,
       st.filesWithOnlyCoreFields, st.filesWithVendorFields,
       st.filesWithCustomFields >>

\* C8: classification does not depend on the order of the files or on the
\* files analysed before: the names of the lists of the file just analysed
\* are counted under the same category as in every earlier file (no name
\* is a key of two count maps), and when the run is done the count maps and
\* the counters filesWithOnlyCoreFields, filesWithVendorFields and
\* filesWithCustomFields are those of every processing order of the files.
C8_OrderIndependent ==
    /\ pc \in {"files", "done"} =>
          /\ Range(coreFieldsInFile) \subseteq DOMAIN stats.coreFieldCounts
          /\ Range(vendorFieldsInFile) \subseteq DOMAIN stats.vendorFieldCounts
          /\ Range(customFieldsInFile) \subseteq DOMAIN stats.customFieldCounts
          /\ DOMAIN stats.coreFieldCounts \cap DOMAIN stats.vendorFieldCounts = {}
          /\ DOMAIN stats.coreFieldCounts \cap DOMAIN stats.customFieldCounts = {}
          /\ DOMAIN stats.vendorFieldCounts \cap DOMAIN stats.customFieldCounts = {}
    /\ pc = "done" =>
          \A order \in ProcessingOrders(filePaths) :
              Counters(analyzeAll([initialStats EXCEPT !.totalFiles = Len(order)],
                                  order, coreFields, vendorFields))
              = Counters(stats)

\* a run is done that classified a file with only core fields and a file
\* with vendor fields, and counted user.name in two files
C8_Witness ==
    /\ pc = "done"
    /\ Len(filePaths) >= 2
    /\ stats.filesWithOnlyCoreFields >= 1
    /\ stats.filesWithVendorFields >= 1
    /\ user_name \in DOMAIN stats.coreFieldCounts
    /\ stats.coreFieldCounts[user_name] >= 2

\* C9: when the reference CSV gives no valid field name the run fails with
\* an error thrown to the caller, and in that run no file is scanned,
\* extracted from or classified and no counter changes: the run goes on to
\* load the vendor fields, scan and analyse only with a schema that is not
\* empty.
C9_EmptySchemaIsFatal ==
    /\ pc \notin {"start", "failed"} => coreFields # {}
    /\ (pc # "start" /\ coreFields = {}
          /\ thrown \notin {"Failed to fetch ECS fields", "Failed to parse ECS fields CSV"})
       => /\ pc = "failed"
          /\ thrown = "No core ECS fields found in CSV file"
          /\ stats = initialStats
          /\ filePaths = <<>>
          /\ progress = 0
          /\ extractedFields = <<>>
          /\ coreFieldsInFile = <<>>
          /\ vendorFieldsInFile = <<>>
          /\ customFieldsInFile = <<>>

\* the run has failed on a CSV without a valid field name
C9_Witness ==
    /\ pc = "failed"
    /\ coreFields = {}
    /\ thrown = "No core ECS fields found in CSV file"

\* a file on which an extractor throws, or on which analyzeFile's try block
\* throws
failing(file) == file.throwAfter >= 0 \/ analyzePath(file) = "error"

\* the files analysed so far, without those that fail
analysedWithoutFailing ==
    SelectSeq(SubSeq(filePaths, 1, progress),
              LAMBDA f : ~failing(FileCatalog[f]))

\* C10 as the claim states it: a failure while extracting from or analysing
\* a file does not abort the batch (the run ends done with every file
\* analysed), and the failing file contributes zero candidates: none to the
\* classification lists, none to the per-field counters.
C10_FailingFileContributesNothing ==
    /\ pc = "done" => progress = Len(filePaths)
    /\ (pc = "files" /\ progress >= 1 /\ failing(FileCatalog[filePaths[progress]]))
          => /\ coreFieldsInFile = <<>>
             /\ vendorFieldsInFile = <<>>
             /\ customFieldsInFile = <<>>
    /\ pc \in {"files", "done"} =>
          Counters(stats) =
              Counters(analyzeAll(initialStats, analysedWithoutFailing,
                                  coreFields, vendorFields))

---------------------------------------------------------------------------
(* Loading the vendor patterns: properties of a run of analyze() *)

\* the vendor pattern file is missing, or reading it throws
vendorFileLost == ~vendorFile.exists \/ ~vendorFile.readable

\* categorizeFields has classified the candidates of the last file
lastFileClassified ==
    /\ pc \in {"files", "done"}
    /\ Len(extractedFields) > 0
    /\ Len(coreFieldsInFile) + Len(vendorFieldsInFile) + Len(customFieldsInFile)
          = Len(extractedFields)

\* C11: a missing or unreadable vendor pattern file is not fatal:
\* loadVendorFields returns the empty set and the run goes on to the scan
\* with no error; with that empty set isVendorField is false for every
\* candidate, and a candidate that is not core is vendor exactly when it
\* begins with kibana. and custom otherwise.
C11_LostVendorFileIsNotFatal ==
    /\ [](vendorFileLost =>
            /\ pc \in {"scan", "files", "done"} => vendorFields = {}
            /\ lastFileClassified =>
                 \A i \in DOMAIN extractedFields :
                    LET field == extractedFields[i]
                    IN  /\ ~isVendorField(field, vendorFields)
                        /\ field \notin Range(coreFieldsInFile) =>
                             IF StartsWith(field, <<"kibana", DOT>>)
                             THEN /\ field \in Range(vendorFieldsInFile)
                                  /\ field \notin Range(customFieldsInFile)
                             ELSE /\ field \in Range(customFieldsInFile)
                                  /\ field \notin Range(vendorFieldsInFile))
    /\ [][pc = "vendor" /\ vendorFileLost
            => pc' = "scan" /\ thrown' = "none" /\ vendorFields' = {}]_vars

C11_Witness ==
    /\ ~vendorFile.exists
    /\ pc = "done"
    /\ thrown = "none"
    /\ tanium_id \in DOMAIN stats.customFieldCounts
    /\ kibana_space_id \in DOMAIN stats.vendorFieldCounts

---------------------------------------------------------------------------
(* isVendorField: properties of a direct call *)

\* some pattern of the set, with one leading dot removed from it and from
\* the field, equals the field or is a prefix of it
somePatternPrefixes(field, patterns) ==
    \E pattern \in patterns :
        StartsWith(withoutLeadingDot(field), withoutLeadingDot(pattern))

---------------------------------------------------------------------------
(* isValidESFieldName and isCommonAPIPattern: properties of a direct call *)

\* the validator returned for the name it was handed
validatorReturned ==
    pc = "return" /\ args.fn = "isValidESFieldName"

\* C13: the validator returns false for every candidate that
\* isCommonAPIPattern matches (a case-insensitive prefix of the fixed API
\* list followed by a dot); in particular it is false for console.log,
\* Object.keys and router.versioned.
C13_APIPatternIsNeverValid ==
    /\ validatorReturned /\ isCommonAPIPattern(args.fieldName)
          => returned = FALSE
    /\ validatorReturned /\ args.fieldName \in
              { Name(<<"console", "log">>), Name(<<"Object", "keys">>),
                Name(<<"router", "versioned">>) }
          => returned = FALSE

C13_Witness ==
    /\ validatorReturned
    /\ args.fieldName = Name(<<"router", "versioned">>)
    /\ isCommonAPIPattern(args.fieldName)
    /\ returned = FALSE

---------------------------------------------------------------------------
(* extractFieldsFromContent: properties of a direct call *)

\* extractFieldsFromContent returned for a JavaScript or TypeScript file
extractedFromJavaScript ==
    /\ pc = "return"
    /\ args.fn = "extractFieldsFromContent"
    /\ fileExt(args.filePath) \in {"js", "ts", "tsx", "jsx"}

\* C14: extractFieldsFromContent on JavaScript content never emits the
\* dotted callee of an unquoted API call (router.versioned, logger.error,
\* z.infer, Array.isArray, console.log, Object.keys, Math.random), while the
\* quoted field references of the same content (user.name, event.category,
\* @timestamp) are emitted.
C14_UnquotedAPICalleesNeverEmitted ==
    extractedFromJavaScript =>
        \A i \in DOMAIN args.content :
            /\ args.content[i].syntax = "member"
                   /\ args.content[i].text \in APICallees
                 => args.content[i].text \notin Range(returned)
            /\ args.content[i].syntax = "string"
                   /\ args.content[i].text \in QuotedFields
                 => args.content[i].text \in Range(returned)

\* C17: for every file content and file path, every element returned by
\* extractFieldsFromContent is a string the validator isValidESFieldName
\* accepts, and the returned list holds no string twice, whichever
\* sub-extractors and patterns produced the hits.
C17_ExtractedAreValidAndDistinct ==
    pc = "return" /\ args.fn = "extractFieldsFromContent" =>
        /\ \A i \in DOMAIN returned : isValidESFieldName(returned[i])
        /\ \A i, j \in DOMAIN returned : i # j => returned[i] # returned[j]

\* user.name is found by the field context, the quoted and the unquoted
\* pattern and returned once; console.log is found and dropped
C17_Witness ==
    /\ pc = "return"
    /\ args.fn = "extractFieldsFromContent"
    /\ args.filePath = "b.ts"
    /\ args.content = << Lexeme("field", Name(<<"user", "name">>)),
                         Lexeme("member", Name(<<"console", "log">>)) >>
    /\ returned = << Name(<<"user", "name">>) >>

---------------------------------------------------------------------------
(* isValidESFieldName: what it accepts *)

\* the canonical grammar of a field name: it starts with a letter or '@',
\* every dot stands between two segments, every segment after a dot is a
\* word that begins with a letter, nothing but words and dots follows the
\* first character, and the name is longer than one character
canonicalGrammar(s) ==
    /\ Len(s) >= 1
    /\ s[1] = "@" \/ (isWord(s[1]) /\ s[1] \notin DigitWords)
    /\ s[1] # DOT /\ s[Len(s)] # DOT
    /\ \A i \in 1..(Len(s) - 1) : ~(s[i] = DOT /\ s[i + 1] = DOT)
    /\ \A i \in 2..Len(s) :
          /\ s[i] = DOT \/ isWord(s[i])
          /\ s[i - 1] = DOT => s[i] \notin DigitWords
    /\ stringLength(s) > 1

\* C15: every string the validator accepts satisfies the canonical grammar
\* and either has a dot or is one of the six allow-listed single words
\* @timestamp, message, tags, labels, error, level; each of those six words
\* is accepted.
C15_AcceptedNamesAreCanonical ==
    validatorReturned =>
        /\ returned = TRUE =>
              /\ canonicalGrammar(args.fieldName)
              /\ \/ includesDot(args.fieldName)
                 \/ args.fieldName \in
                        { <<"@", "timestamp">>, <<"message">>, <<"tags">>,
                          <<"labels">>, <<"error">>, <<"level">> }
        /\ args.fieldName \in
               { <<"@", "timestamp">>, <<"message">>, <<"tags">>,
                 <<"labels">>, <<"error">>, <<"level">> }
             => returned = TRUE

C15_Witness ==
    /\ validatorReturned
    /\ args.fieldName = <<"message">>
    /\ returned = TRUE

---------------------------------------------------------------------------
(* The schema and the validator of extracted names *)

\* C16: the extraction validator never excludes a valid reference-schema
\* field: every field name parseECSFields keeps in the schema set is
\* accepted by isValidESFieldName, and the sub-fields process.parent.pid and
\* log.logger are accepted too.
C16_ValidatorKeepsSchemaFields ==
    /\ pc = "return"
    /\ args.fn = "isValidESFieldName"
    /\ args.fieldName \in coreFields \cup SubFields
    => returned = TRUE

---------------------------------------------------------------------------
(* parseECSFields: properties of a direct call *)

\* the columns the header row names field, Field or FIELD
fieldColumns(csv) ==
    {j \in DOMAIN csv.header : csv.header[j] \in {"field", "Field", "FIELD"}}

\* the trimmed cells of those columns
fieldCells(csv) ==
    { trim(csv.rows[i][j]) : i \in DOMAIN csv.rows, j \in fieldColumns(csv) }

\* C18: parseECSFields locates the field column by header name regardless
\* of column position, trims each value, keeps exactly the values that
\* satisfy the canonical name format and silently skips blank or malformed
\* values such as '' and 'invalid-field'; hence every member of the returned
\* schema set satisfies that format.
C18_FieldColumnByHeaderName ==
    pc = "parsed" /\ args.fn = "parseECSFields" =>
        /\ returned = { v \in fieldCells(args.csvContent) : canonicalGrammar(v) }
        /\ <<>> \notin returned
        /\ <<"invalid", "-", "field">> \notin returned
        /\ \A field \in returned : canonicalGrammar(field)

C18_Witness ==
    /\ pc = "parsed"
    /\ args.fn = "parseECSFields"
    /\ args.csvContent =
           csvOf(<<"type", "field">>,
                 << <<" ", "host", DOT, "ip", " ">>, <<"invalid", "-", "field">> >>)
    /\ returned = { Name(<<"host", "ip">>) }

---------------------------------------------------------------------------
(* Test files: scanDirectory, shouldSkipFile and analyzeFile *)

\* the path has /test/, /tests/, /__tests__/, .test. or .spec. in it, in
\* any case of the letters
hasTestPath(filePath) ==
    \E i \in 1..(Len(filePath) - 2) :
        lowerCase(SubSeq(filePath, i, i + 2)) \in
            { <<"/", "test", "/">>, <<"/", "tests", "/">>,
              <<"/", "__tests__", "/">>, <<DOT, "test", DOT>>,
              <<DOT, "spec", DOT>> }

\* C19: with includeTests false, scanDirectory never returns, and
\* analyzeFile never extracts from, a file whose path contains /test/,
\* /tests/, /__tests__/, .test. or .spec. (case-insensitively); with
\* includeTests true neither scanDirectory nor shouldSkipFile excludes a
\* file for being a test file.
C19_TestFilesExcludedUnlessIncluded ==
    pc = "return" =>
        /\ ~includeTests /\ args.fn = "scanDirectory" =>
              \A k \in DOMAIN returned :
                  ~hasTestPath(ScanCatalog[returned[k]].segments)
        /\ ~includeTests /\ args.fn = "analyzeFile"
              /\ hasTestPath(args.file.segments) =>
                  /\ extractedFields = <<>>
                  /\ stats.processedFiles = 0
                  /\ DOMAIN stats.coreFieldCounts = {}
                  /\ DOMAIN stats.fileTypeCounts = {}
        /\ includeTests /\ args.fn = "scanDirectory" =>
              \A i \in args.tree :
                  hasTestPath(ScanCatalog[i].segments) =>
                      ((\E k \in DOMAIN returned : returned[k] = i)
                         <=> /\ \E ext \in {"js", "ts", "tsx", "jsx"} :
                                   EndsWith(ScanCatalog[i].segments, <<DOT, ext>>)
                             /\ ~baseExcludePatterns(ScanCatalog[i].segments))
        /\ includeTests /\ args.fn = "shouldSkipFile"
              /\ hasTestPath(args.file.segments) =>
                  returned = (args.file.ext \in {".map", ".d.ts"}
                                 \/ args.file.statFails)

\* of the whole tree the scan without tests returns src/a.js and
\* src/latest/f.js
C19_Witness ==
    /\ pc = "return"
    /\ ~includeTests
    /\ args.fn = "scanDirectory"
    /\ args.tree = DOMAIN ScanCatalog
    /\ returned = <<5, 9>>

---------------------------------------------------------------------------
(* The list of the skipped files *)

\* C20: every skipped file is listed with a reason: in every state reached
\* by any sequence of analyzeFile calls, skippedFilesList has exactly one
\* {path, reason} entry for each file counted in skippedFiles
\* (skippedFilesList.length = skippedFiles).
C20_SkippedFilesAreListed ==
    Len(stats.skippedFilesList) = stats.skippedFiles

---------------------------------------------------------------------------
(* The counts of the results *)

RECURSIVE sumOf(_)
\* Array.from(map.values()).reduce((a, b) => a + b, 0) of generateResults
sumOf(map) ==
    IF DOMAIN map = {} THEN 0
    ELSE LET k == CHOOSE x \in DOMAIN map : TRUE
         IN  map[k] + sumOf([j \in DOMAIN map \ {k} |-> map[j]])

\* the references the extractors found in a file: every hit they added to
\* the Set, a repeated reference once for each time
referencesIn(file) ==
    IF file.throwAfter >= 0 THEN SubSeq(file.hits, 1, file.throwAfter)
    ELSE file.hits

\* the references of the files analysed so far that were classified
RECURSIVE referencesUpTo(_)
referencesUpTo(n) ==
    IF n = 0 THEN <<>>
    ELSE referencesUpTo(n - 1) \o
         (IF analyzePath(FileCatalog[filePaths[n]]) = "classified"
          THEN referencesIn(FileCatalog[filePaths[n]]) ELSE <<>>)

\* the count the results report for a name
reportedCount(field) ==
    IF field \in DOMAIN stats.coreFieldCounts THEN stats.coreFieldCounts[field]
    ELSE IF field \in DOMAIN stats.vendorFieldCounts THEN stats.vendorFieldCounts[field]
    ELSE IF field \in DOMAIN stats.customFieldCounts THEN stats.customFieldCounts[field]
    ELSE 0

\* C21: the count reported for a field name, and the three totals
\* total{Core,Vendor,Custom}FieldOccurrences, are numbers of occurrences: the
\* count of a name is the number of references to it in the classified files
\* (a file that references a name n times adds n), and the three totals add
\* up to the number of all those references.
C21_CountsAreOccurrences ==
    pc \in {"files", "done"} =>
        LET references == referencesUpTo(progress)
        IN  /\ \A field \in Range(references) :
                  reportedCount(field) = Occurrences(references, field)
            /\ sumOf(stats.coreFieldCounts) + sumOf(stats.vendorFieldCounts)
                  + sumOf(stats.customFieldCounts) = Len(references)

---------------------------------------------------------------------------
(* The two reference sets of a run *)

\* the sets parseECSFields returns for the reference CSV files
ParsedSchemas == { parseECSFields(csv) : csv \in CsvInputs }

\* both sets are what Step 1 and Step 1.5 construct
referenceSetsConstructed ==
    /\ coreFields # {}
    /\ coreFields \in ParsedSchemas
    /\ vendorFields = loadVendorFields(vendorFile)

\* C22: in analyze() the schema set and the vendor-pattern set are both
\* fully constructed before the first analyzeFile call (whenever the loop
\* over the files is entered or left, both are what parseECSFields and
\* loadVendorFields returned), and no later step of the run adds to,
\* removes from or replaces either set.
C22_SingleInitBarrier ==
    /\ [](pc \in {"files", "done"} => referenceSetsConstructed)
    /\ [][(pc \in {"files", "done"}) =>
             (coreFields' = coreFields /\ vendorFields' = vendorFields)]_vars

\* a run is done that classified two files against a vendor set that is not
\* empty
C22_Witness ==
    /\ pc = "done"
    /\ progress >= 2
    /\ vendorFields # {}
    /\ stats.processedFiles >= 2
    /\ sumOf(stats.coreFieldCounts) >= 1

---------------------------------------------------------------------------
(* The reference contexts of code-syntax files *)

\* the lexemes whose text stands in a reference context: the key of a term
\* clause and the value of a field: key
inReferenceContext(lexeme) == lexeme.syntax \in {"term", "field"}

\* C23: for code-syntax files (.js, .jsx, .ts, .tsx) a candidate is emitted
\* only when it occurs in an unambiguous reference context: every name
\* extractFieldsFromContent returns is the text of a term or field: lexeme
\* of the content, and a bare quoted string or a bare dotted identifier
\* elsewhere is never by itself the reason a name is returned.
C23_OnlyReferenceContexts ==
    extractedFromJavaScript =>
        \A name \in Range(returned) :
            \E i \in DOMAIN args.content :
                /\ inReferenceContext(args.content[i])
                /\ args.content[i].text = name

---------------------------------------------------------------------------
(* Hash-like identifiers *)

\* /^[a-f0-9]{8}-[a-f0-9]{4}-[a-f0-9]{4}-[a-f0-9]{4}-[a-f0-9]{12}$/i
guidShaped(s) ==
    s = <<"f47ac10b", "-", "c8cc", "-", "b372", "-", "d567", "-", "fe02b2c3d479">>

\* a run of 32 or more hex characters, a GUID, or a name with such a run as
\* an interior dot-segment
hashLike(s) ==
    \/ Len(s) = 1 /\ s[1] \in HexRuns
    \/ guidShaped(s)
    \/ \E i \in 2..(Len(s) - 1) :
          s[i - 1] = DOT /\ s[i] \in HexRuns /\ s[i + 1] = DOT

\* C24: the validator rejects hash-like identifiers: every candidate that
\* is a run of 32 or more hex characters, is GUID-shaped, or contains such
\* a run as an interior dot-segment gets isValidFieldName = false.
C24_HashLikeIsNeverValid ==
    (validatorReturned /\ hashLike(args.fieldName)) => returned = FALSE

---------------------------------------------------------------------------
(* Walking a mapping tree *)

RECURSIVE leafPaths(_, _)
\* the dot-joined paths of the fields of a properties object that have no
\* nested properties, every key on the way appended to the path
leafPaths(obj, fieldPath) ==
    IF obj.kind = "string" THEN <<>>
    ELSE Concat([i \in DOMAIN obj.entries |->
            LET path == currentFieldPath(fieldPath, obj.entries[i].key)
            IN  IF truthyMember(obj.entries[i].value, <<"properties">>)
                THEN leafPaths(member(obj.entries[i].value, <<"properties">>), path)
                ELSE <<path>>])

\* the properties object a document starts from: its mappings.properties,
\* its properties, or the object itself
rootProperties(obj) ==
    IF /\ truthyMember(obj, <<"mappings">>)
       /\ truthyMember(member(obj, <<"mappings">>), <<"properties">>)
    THEN member(member(obj, <<"mappings">>), <<"properties">>)
    ELSE IF truthyMember(obj, <<"properties">>)
    THEN member(obj, <<"properties">>)
    ELSE obj

\* C26: walking a parsed mapping tree, extractFromMappingDefinition and
\* extractFieldsFromMappingObject recurse into every value that has a nested
\* properties sub-tree with the key appended to the dot-joined path and do
\* not emit that node itself, and emit the accumulated path of every leaf,
\* with a type marker or without one, that the validator accepts: what
\* they return is the valid leaf paths of the tree, each once, in order
\* (host.name for {mappings:{properties:{host:{properties:{name:{type}}}}}}).
C26_WalkEmitsValidLeafPaths ==
    /\ (pc = "return" /\ args.fn = "extractFieldsFromMappingObject") =>
          returned = addAll(<<>>, SelectSeq(leafPaths(args.obj, <<>>),
                                            isValidESFieldName))
    /\ (pc = "return" /\ args.fn = "extractFromMappingDefinition") =>
          returned = addAll(<<>>, SelectSeq(leafPaths(rootProperties(args.obj), <<>>),
                                            isValidESFieldName))

---------------------------------------------------------------------------
(* Structured content that does not parse *)

\* the fragment of the first properties block of the content
firstFragment(content) ==
    content[Min({i \in DOMAIN content : content[i].syntax = "properties"})].value

\* the content has a properties block and JSON.parse throws on its fragment
fragmentDoesNotParse(content) ==
    /\ \E i \in DOMAIN content : content[i].syntax = "properties"
    /\ ~isJSONFragment(firstFragment(content))

\* the candidates of the other parts of a file: the valid keys of its term
\* clauses
termKeys(content) ==
    SelectSeq(quotedOf(content, "term"), isValidESFieldName)

\* C25: when strict parsing of structured content throws (JSON.parse of the
\* content in extractFromJSON, or of a carved-out properties fragment in
\* extractFieldsFromMappingProperties), the call still returns its list of
\* names, and the names are those of the pattern-based extraction of that
\* same text only: for a content, the text patterns on the content; for a
\* fragment, the mapping patterns on the fragment and not on the rest of
\* the file, next to the candidates of the other parts of the file, which
\* are kept.
C25_ParseFailureFallsBackLocally ==
    /\ (pc = "return" /\ args.fn = "extractFromJSON" /\ ~isJSON(args.content)) =>
          returned = addAll(<<>>, extractWithPatterns(quotedPattern(args.content)
                                      \o unquotedPattern(args.content)))
    /\ (pc = "return" /\ args.fn = "extractESClientFields"
           /\ fragmentDoesNotParse(args.content)) =>
          /\ Range(returned) =
                Range(extractFieldsFromMappingContentPattern(firstFragment(args.content)))
                    \cup Range(termKeys(args.content))
          /\ \A i, j \in DOMAIN returned : returned[i] = returned[j] => i = j

\* a TypeScript-style properties block between a term clause and a quoted
\* string: the names of the block and of the term clause are returned, the
\* quoted string outside the block is not
C25_Witness ==
    /\ pc = "return"
    /\ args.fn = "extractESClientFields"
    /\ args.content =
          << Lexeme("term", Name(<<"process", "pid">>)),
             Properties(<< Lexeme("mapping", Name(<<"user", "name">>)),
                           Lexeme("string", Name(<<"event", "category">>)) >>),
             Lexeme("string", Name(<<"log", "level">>)) >>
    /\ returned = << Name(<<"user", "name">>), Name(<<"event", "category">>),
                     Name(<<"process", "pid">>) >>

\* the depth after the lexemes of the content from the one after the
\* declaration start at position start up to position upTo: 1, plus the
\* opening braces, minus the closing braces
depthAfter(content, start, upTo) ==
    1 + Cardinality({ k \in (start + 1)..upTo : opensBrace(content[k]) })
      - Cardinality({ k \in (start + 1)..upTo : closesBrace(content[k]) })

\* the position of the closing brace that matches the declaration start at
\* position start, 0 if the content ends first
matchingBrace(content, start) ==
    LET closes == { j \in (start + 1)..Len(content) :
                      depthAfter(content, start, j) = 0 }
    IN  IF closes = {} THEN 0
        ELSE CHOOSE j \in closes : \A k \in closes : j <= k

\* for each declaration start in order, the fields of the text between its
\* opening brace and the matching closing brace
fieldsBetweenBraces(content) ==
    Concat([start \in DOMAIN content |->
               IF content[start].syntax = "interface"
                  /\ matchingBrace(content, start) > 0
               THEN interfaceFields(SubSeq(content, start + 1,
                                           matchingBrace(content, start) - 1))
               ELSE <<>>])

\* C27: for each declaration start the scan keeps a depth that is 1 plus the
\* opening minus the closing braces passed, it goes on only while the depth
\* is positive and the content has not ended, the depth is never negative
\* and the index never beyond the length of the content, the call returns
\* for every content, and what it returns are the fields between each
\* opening brace and its matching closing brace, none for a declaration the
\* content ends in
C27_BraceScanIsBalancedAndEnds ==
    /\ [](/\ braceCount >= 0
          /\ endIndex <= Len(args.content)
          /\ pc = "scan" =>
                /\ braceCount = depthAfter(args.content, startIndex, endIndex)
                /\ \A j \in startIndex..(endIndex - 1) :
                      depthAfter(args.content, startIndex, j) > 0)
    /\ <>(pc = "return")
    /\ [](pc = "return" =>
             returned = addAll(<<>>, fieldsBetweenBraces(args.content)))

C27_Witness ==
    /\ pc = "return"
    /\ args.fn = "extractFieldsFromTypescriptInterfaces"
    /\ args.content = <<Lexeme("interface", <<"LogEntry">>),
                        Lexeme("open", <<>>),
                        Lexeme("close", <<>>),
                        Lexeme("quotedKey", <<"user", ".", "name">>),
                        Lexeme("close", <<>>)>>
    /\ returned = <<<<"user", ".", "name">>>>

\* C28: every analyzeFile call adds one to exactly one of processedFiles and
\* skippedFiles and leaves the other as it is, so the two add up to the
\* number of calls made, and to totalFiles when analyze() returns
C28_EachFileCountedOnce ==
    /\ [][(pc = "files" /\ progress' = progress + 1) =>
             \/ /\ stats'.processedFiles = stats.processedFiles + 1
                /\ stats'.skippedFiles = stats.skippedFiles
             \/ /\ stats'.processedFiles = stats.processedFiles
                /\ stats'.skippedFiles = stats.skippedFiles + 1]_vars
    /\ [](pc \in {"files", "done"} =>
             stats.processedFiles + stats.skippedFiles = progress)
    /\ [](pc = "done" =>
             stats.processedFiles + stats.skippedFiles = stats.totalFiles)

C28_Witness ==
    /\ pc = "done"
    /\ stats.totalFiles = MaxFiles
    /\ stats.processedFiles > 0
    /\ stats.skippedFiles > Len(stats.skippedFilesList)
    /\ Len(stats.skippedFilesList) > 0

\* the three count maps of this.stats
countMaps == <<stats.coreFieldCounts, stats.vendorFieldCounts,
               stats.customFieldCounts>>

\* C29: between the analyzeFile calls of a run no field name is a key of
\* two of the three count maps, every count is at least 1 and at most
\* processedFiles, and the files with only core fields and the files with
\* vendor fields, or with custom fields, are together no more than
\* processedFiles
C29_CountsAreDisjointAndBounded ==
    /\ \A i, j \in 1..3 :
          i # j => DOMAIN countMaps[i] \cap DOMAIN countMaps[j] = {}
    /\ \A i \in 1..3 : \A field \in DOMAIN countMaps[i] :
          /\ countMaps[i][field] >= 1
          /\ countMaps[i][field] <= stats.processedFiles
    /\ stats.filesWithOnlyCoreFields + stats.filesWithVendorFields
          <= stats.processedFiles
    /\ stats.filesWithOnlyCoreFields + stats.filesWithCustomFields
          <= stats.processedFiles

C29_Witness ==
    /\ pc = "files"
    /\ stats.processedFiles >= 2
    /\ \A i \in 1..3 : DOMAIN countMaps[i] # {}
    /\ \E field \in DOMAIN stats.coreFieldCounts :
          stats.coreFieldCounts[field] = stats.processedFiles
    /\ stats.filesWithOnlyCoreFields > 0
    /\ stats.filesWithVendorFields > 0
    /\ stats.filesWithCustomFields > 0

\* a call of fetchECSFields is about to be made
callsFetchECSFields == pc \in {"call", "downloaded"}

\* C30: a call of fetchECSFields on an existing file returns its content,
\* makes no request and leaves the file as it is; on a missing file it makes
\* one request, writes the file, once and with the text of the response,
\* only if the response is ok, and otherwise throws and leaves no file; a
\* run of analyze() makes at most one request, and none if the file was
\* there at the start
C30_FetchIsLocalFirst ==
    /\ [][(callsFetchECSFields /\ fieldsCSV.exists) =>
             (/\ returned' = fieldsCSV.content
              /\ thrown' = "none"
              /\ requests' = requests
              /\ fieldsCSV' = fieldsCSV)]_vars
    /\ [][(callsFetchECSFields /\ ~fieldsCSV.exists) =>
             (/\ requests' = requests + 1
              /\ args.response.kind = "ok" =>
                    /\ fieldsCSV' = writeFile(fieldsCSV, args.response.text)
                    /\ returned' = args.response.text
                    /\ thrown' = "none"
              /\ args.response.kind # "ok" =>
                    /\ fieldsCSV' = fieldsCSV
                    /\ thrown' # "none")]_vars
    /\ [](fieldsCSV.writes > 0 => args.response.kind = "ok")
    /\ [](args.fn = "analyze" => requests <= 1)
    /\ (args.fn = "analyze" /\ fieldsCSV.exists) => [](requests = 0)

C30_Witness ==
    /\ pc = "fetched"
    /\ args.fn = "analyze"
    /\ requests = 1
    /\ fieldsCSV.writes = 1
    /\ returned = args.response.text
    /\ returned = csvOf(<<"field", "type">>, <<Name(<<"user", "name">>)>>)

===========================================================================
